---- MODULE Spec2Model ----
(***************************************************************************)
(* Verification model of the Krishi Sakha advisory pipeline:               *)
(*   - DataRetrievalAgent (src/src/services/dataRetrieval.ts): the five    *)
(*     retrieval agents, their TTL cache and the batch retrieval;          *)
(*   - RetrievalAugmentedGeneration (src/src/services/ragSystem.ts):       *)
(*     generateAdvice, retrieveDataWithRetries and their helpers;          *)
(*   - preprocessQuery (src/unnamed/part_016);                             *)
(*   - the useQueries hook (src/src/hooks/useQueries.tsx) and its variant  *)
(*     that validates the query itself (src/unnamed/part_005).             *)
(* Times are in seconds (the code's millisecond values divided by 1000, so *)
(* that 30 days fit a 32-bit integer), confidences are percentages, a      *)
(* string that is processed character by character is a sequence of        *)
(* one-character strings, an optional value is a sequence of length 0 or 1.*)
(***************************************************************************)
EXTENDS Integers, Sequences, FiniteSets, TLC

VARIABLES
    now,        \* the wall clock (Date.now()), in seconds
    cache,      \* DataRetrievalAgent.cache: key -> optional {data, expiry}
    nCalls,     \* number of agent operations performed so far
    nTicks,     \* number of clock advances so far
    agent,      \* SpecAgent: the agent (data type) the behaviour exercises
    first,      \* an earlier agent call, remembered for comparison (optional)
    last,       \* the most recent agent call (optional)
    context,    \* the QueryContext of the retrieval in progress
    batch,      \* the list returned by the last retrieveAllRelevantData (optional)
    nBatches,   \* number of batch retrievals performed so far
    retry,      \* retrieveDataWithRetries: its locals, position and event log
    query,      \* the query text of the request in progress
    language,   \* the language argument of the request
    processed,  \* the ProcessedQuery of the request (optional)
    pc,         \* the position of the request in its handler
    hook,       \* the submitQuery that issued the request
    systemHealth,   \* RetrievalAugmentedGeneration.systemHealth
    draft,      \* initialAnswer of generateAdvice (optional)
    llmLog,     \* the request's generation calls, in order: prompt and outcome
    response,   \* the RAGResponse generateAdvice resolved with (optional)
    raised,     \* generateAdvice rejected: an exception reached its caller
    shown,      \* what submitQuery handed to the UI (optional)
    helperResult,   \* the value a helper returned when called on its own (optional)
    save,       \* submitQuery: the background save of the query, its locals and log
    requests    \* the generateAdvice calls in progress on the one ragSystem (optional)

agentVars == <<now, cache, nCalls, nTicks, agent, first, last>>
batchVars == <<context, batch, nBatches>>
reqVars == <<query, language, processed, pc, hook, systemHealth, draft, llmLog,
             response, raised, shown>>
extraVars == <<helperResult, save, requests>>
vars == <<agentVars, batchVars, retry, reqVars, extraVars>>

(***************************************************************************)
(* Bounds of the model                                                     *)
(***************************************************************************)
MaxCalls == 3
MaxTicks == 2
MaxBatches == 2
MaxLen == 3

(***************************************************************************)
(* Inputs                                                                  *)
(***************************************************************************)
Types == {"weather", "market", "advisory", "soil", "scheme"}

\* LocationInfo values: two districts of one state
Locations == { [state |-> "punjab", district |-> "ludhiana"],
               [state |-> "punjab", district |-> "amritsar"] }

\* CropInfo names; an absent crop is the empty sequence
Crops == { <<>>, <<"wheat">> }

\* outcomes of Math.random() in a synthesized payload
Payloads == {1, 2}

\* the topic keywords a query type list is made of
Topics == {"weather", "market", "price", "soil", "fertilizer", "scheme", "subsidy"}

\* QueryContext values: location and crop optional, queryType a list without order
Contexts ==
    [ location : {<<>>} \cup {<<l>> : l \in Locations},
      crop : Crops,
      queryType : SUBSET Topics ]

NoContext == [location |-> <<>>, crop |-> <<>>, queryType |-> {}]

\* the characters the enumerated query texts are made of: a Latin letter, a digit, a
\* space, an end mark, a Devanagari letter, a Lao letter and a character that the
\* cleaning removes
Alphabet == {"a", "1", " ", ".", "U+0915", "U+0E81", "@"}

\* 'hi'
Hi == <<"h", "i">>

\* 'Wheat prices in Punjab'
WheatPricesInPunjab ==
    <<"W", "h", "e", "a", "t", " ", "p", "r", "i", "c", "e", "s", " ", "i", "n", " ", "P", "u", "n", "j", "a", "b">>

\* 'pani kab dena hai'
PaniKabDenaHai ==
    <<"p", "a", "n", "i", " ", "k", "a", "b", " ", "d", "e", "n", "a", " ", "h", "a", "i">>

\* 'Best fertlizer???'
BestFertlizer ==
    <<"B", "e", "s", "t", " ", "f", "e", "r", "t", "l", "i", "z", "e", "r", "?", "?", "?">>

\* 'wheat @ rice'
WheatAtRice ==
    <<"w", "h", "e", "a", "t", " ", "@", " ", "r", "i", "c", "e">>

\* three letters of one script: Bengali, Gurmukhi, Gujarati, Odia
BengaliText == <<"U+0995", "U+0995", "U+0995">>
GurmukhiText == <<"U+0A15", "U+0A15", "U+0A15">>
GujaratiText == <<"U+0A95", "U+0A95", "U+0A95">>
OdiaText == <<"U+0B15", "U+0B15", "U+0B15">>

\* an Odia letter, a Bengali letter and a romanized Hindi word
OdiaBengaliHai == <<"U+0B15", "U+0995", " ", "h", "a", "i">>

SampleQueries ==
    { Hi, WheatPricesInPunjab, PaniKabDenaHai, BestFertlizer, WheatAtRice,
      BengaliText, GurmukhiText, GujaratiText, OdiaText, OdiaBengaliHai }

\* the query texts: every text of at most MaxLen characters of the alphabet, and the samples
Queries ==
    UNION { [1..n -> Alphabet] : n \in 0..MaxLen } \cup SampleQueries

Languages == {"en", "hi"}

(***************************************************************************)
(* preprocessQuery (queryPreprocessor).  A text is a sequence of           *)
(* characters; an ASCII character is the one-character string, any other   *)
(* character is the string "U+" and its code point in hexadecimal.         *)
(***************************************************************************)
LowerLetters == <<"a", "b", "c", "d", "e", "f", "g", "h", "i", "j", "k", "l", "m", "n", "o", "p", "q", "r", "s", "t", "u", "v", "w", "x", "y", "z">>
UpperLetters == <<"A", "B", "C", "D", "E", "F", "G", "H", "I", "J", "K", "L", "M", "N", "O", "P", "Q", "R", "S", "T", "U", "V", "W", "X", "Y", "Z">>
Digits == {"0", "1", "2", "3", "4", "5", "6", "7", "8", "9"}

Range(f) == {f[i] : i \in DOMAIN f}

\* the code points of the non-ASCII characters of the model
CodePoint ==
    [ ch \in {"U+0902", "U+0915", "U+0916", "U+0917", "U+091C", "U+091F", "U+0926", "U+0928", "U+092A", "U+092B", "U+092D", "U+092E", "U+092F", "U+0930", "U+0932", "U+0938", "U+0939", "U+093C", "U+093E", "U+093F", "U+0940", "U+0947", "U+0948", "U+094D",
              "U+0995", "U+0A15", "U+0A95", "U+0B15", "U+0E81", "U+20B9"} |->
      CASE ch = "U+0902" -> 2306
        [] ch = "U+0915" -> 2325
        [] ch = "U+0916" -> 2326
        [] ch = "U+0917" -> 2327
        [] ch = "U+091C" -> 2332
        [] ch = "U+091F" -> 2335
        [] ch = "U+0926" -> 2342
        [] ch = "U+0928" -> 2344
        [] ch = "U+092A" -> 2346
        [] ch = "U+092B" -> 2347
        [] ch = "U+092D" -> 2349
        [] ch = "U+092E" -> 2350
        [] ch = "U+092F" -> 2351
        [] ch = "U+0930" -> 2352
        [] ch = "U+0932" -> 2354
        [] ch = "U+0938" -> 2360
        [] ch = "U+0939" -> 2361
        [] ch = "U+093C" -> 2364
        [] ch = "U+093E" -> 2366
        [] ch = "U+093F" -> 2367
        [] ch = "U+0940" -> 2368
        [] ch = "U+0947" -> 2375
        [] ch = "U+0948" -> 2376
        [] ch = "U+094D" -> 2381
        [] ch = "U+0995" -> 2453      \* Bengali letter ka
        [] ch = "U+0A15" -> 2581      \* Gurmukhi letter ka
        [] ch = "U+0A95" -> 2709      \* Gujarati letter ka
        [] ch = "U+0B15" -> 2837      \* Odia letter ka
        [] ch = "U+0E81" -> 3713      \* Lao letter ko
        [] ch = "U+20B9" -> 8377 ]    \* rupee sign

\* ch lies in the range \u<lo>-\u<hi> of a character class
InRange(ch, lo, hi) == ch \in DOMAIN CodePoint /\ lo <= CodePoint[ch] /\ CodePoint[ch] <= hi

\* \s
IsSpace(ch) == ch \in {" ", "\t", "\n"}

\* \w
IsWord(ch) == ch \in Range(LowerLetters) \cup Range(UpperLetters) \cup Digits \cup {"_"}

\* [\w\s\u0900-\u097F ... \u0D00-\u0D7F\u0E80-\u0EFF.,!?], the characters Step 1
\* keeps; the ten ranges it lists are 0900-0D7F without a gap, and 0E80-0EFF
IsKept(ch) ==
    \/ IsWord(ch)
    \/ IsSpace(ch)
    \/ InRange(ch, 2304, 3455)
    \/ InRange(ch, 3712, 3839)
    \/ ch \in {".", ",", "!", "?"}

IsLetter_WithDigits(ch) ==
    \/ ch \in Range(LowerLetters) \cup Range(UpperLetters) \cup Digits
    \/ InRange(ch, 2304, 3455)

\* [a-zA-Z\u0900-\u097F ... \u0D00-\u0D7F], the characters Step 6 looks for
IsLetter(ch) ==
    \/ ch \in Range(LowerLetters) \cup Range(UpperLetters)
    \/ InRange(ch, 2304, 3455)

RECURSIVE dropWhileSpace(_)
dropWhileSpace(t) ==
    IF t # <<>> /\ IsSpace(Head(t)) THEN dropWhileSpace(Tail(t)) ELSE t

RECURSIVE dropTrailingSpace(_)
dropTrailingSpace(t) ==
    IF t # <<>> /\ IsSpace(t[Len(t)])
    THEN dropTrailingSpace(SubSeq(t, 1, Len(t) - 1)) ELSE t

\* .trim()
trim(t) == dropTrailingSpace(dropWhileSpace(t))

\* .replace(/\s+/g, ' ')
RECURSIVE collapseSpaces(_)
collapseSpaces(t) ==
    IF t = <<>> THEN <<>>
    ELSE IF IsSpace(Head(t))
         THEN <<" ">> \o collapseSpaces(dropWhileSpace(t))
         ELSE <<Head(t)>> \o collapseSpaces(Tail(t))

\* .replace(/[^...]/g, '')
stripDisallowed(t) == SelectSeq(t, IsKept)

IsEndMark(ch) == ch \in {".", "!", "?"}

\* the length of the run of end marks t starts with
RECURSIVE endMarkRun(_)
endMarkRun(t) ==
    IF t # <<>> /\ IsEndMark(Head(t)) THEN 1 + endMarkRun(Tail(t)) ELSE 0

\* .replace(/([.!?]){2,}/g, '$1'): a run of two or more end marks becomes its last one
RECURSIVE collapsePunctuation(_)
collapsePunctuation(t) ==
    IF t = <<>> THEN <<>>
    ELSE LET n == endMarkRun(t)
         IN IF n >= 2
            THEN <<t[n]>> \o collapsePunctuation(SubSeq(t, n + 1, Len(t)))
            ELSE <<Head(t)>> \o collapsePunctuation(Tail(t))

\* the length of the run of the character ch t starts with
RECURSIVE sameRun(_, _)
sameRun(t, ch) ==
    IF t # <<>> /\ Head(t) = ch THEN 1 + sameRun(Tail(t), ch) ELSE 0

\* .replace(/(.)\1{3,}/g, '$1$1'): a run of four or more of one character becomes two
RECURSIVE reduceRepeats(_)
reduceRepeats(t) ==
    IF t = <<>> THEN <<>>
    ELSE LET n == sameRun(t, Head(t))
         IN IF n >= 4
            THEN <<Head(t), Head(t)>> \o reduceRepeats(SubSeq(t, n + 1, Len(t)))
            ELSE <<Head(t)>> \o reduceRepeats(Tail(t))

lowerChar(ch) ==
    IF ch \in Range(UpperLetters)
    THEN LowerLetters[CHOOSE i \in DOMAIN UpperLetters : UpperLetters[i] = ch]
    ELSE ch

\* .toLowerCase()
toLowerCase(t) == [i \in 1..Len(t) |-> lowerChar(t[i])]

\* Step 1: Basic text cleaning
cleanText(text) ==
    toLowerCase(reduceRepeats(collapsePunctuation(stripDisallowed(
        collapseSpaces(trim(text))))))

\* new RegExp(`\\b${word}\\b`, 'gi') matches at position i of t
matchesWordAt(t, i, word) ==
    /\ i + Len(word) - 1 <= Len(t)
    /\ \A k \in 1..Len(word) : lowerChar(t[i + k - 1]) = word[k]
    /\ (i = 1 \/ ~IsWord(t[i - 1]))
    /\ (i + Len(word) - 1 = Len(t) \/ ~IsWord(t[i + Len(word)]))

\* pattern.test(text) for /\b(w1|w2|...)\b/i
containsWord(t, words) ==
    \E i \in 1..Len(t) : \E w \in words : matchesWordAt(t, i, w)

\* text.replace(new RegExp(`\\b${word}\\b`, 'gi'), replacement), scanning from i
RECURSIVE replaceWordFrom(_, _, _, _)
replaceWordFrom(t, i, word, replacement) ==
    IF i > Len(t) THEN <<>>
    ELSE IF matchesWordAt(t, i, word)
         THEN replacement \o replaceWordFrom(t, i + Len(word), word, replacement)
         ELSE <<t[i]>> \o replaceWordFrom(t, i + 1, word, replacement)

replaceWord(t, word, replacement) == replaceWordFrom(t, 1, word, replacement)

\* for (const [from, to] of Object.entries(dictionary)) text = text.replace(...),
\* from entry k on
RECURSIVE applyDictionary(_, _, _)
applyDictionary(t, dictionary, k) ==
    IF k > Len(dictionary) THEN t
    ELSE applyDictionary(replaceWord(t, dictionary[k][1], dictionary[k][2]),
                         dictionary, k + 1)

agricultureTerms ==
    << <<<<"f", "e", "r", "t", "l", "i", "z", "e", "r">>, <<"f", "e", "r", "t", "i", "l", "i", "z", "e", "r">>>>,
       <<<<"f", "e", "r", "t", "l", "i", "s", "e", "r">>, <<"f", "e", "r", "t", "i", "l", "i", "z", "e", "r">>>>,
       <<<<"p", "e", "s", "t", "c", "i", "d", "e">>, <<"p", "e", "s", "t", "i", "c", "i", "d", "e">>>>,
       <<<<"i", "r", "i", "g", "a", "t", "i", "o", "n">>, <<"i", "r", "r", "i", "g", "a", "t", "i", "o", "n">>>>,
       <<<<"i", "r", "i", "g", "a", "s", "h", "u", "n">>, <<"i", "r", "r", "i", "g", "a", "t", "i", "o", "n">>>>,
       <<<<"c", "r", "o", "p", "p">>, <<"c", "r", "o", "p">>>>,
       <<<<"s", "o", "y", "l">>, <<"s", "o", "i", "l">>>>,
       <<<<"w", "a", "t", "r">>, <<"w", "a", "t", "e", "r">>>>,
       <<<<"p", "a", "n", "i">>, <<"w", "a", "t", "e", "r">>>>,
       <<<<"k", "h", "a", "d">>, <<"f", "e", "r", "t", "i", "l", "i", "z", "e", "r">>>>,
       <<<<"k", "e", "e", "t">>, <<"p", "e", "s", "t">>>>,
       <<<<"b", "e", "e", "j">>, <<"s", "e", "e", "d">>>>,
       <<<<"f", "a", "s", "a", "l">>, <<"c", "r", "o", "p">>>> >>

hinglishFunctionWords ==
    { <<"k", "a", "i", "s", "e">>,
      <<"k", "a", "i", "s", "a">>,
      <<"k", "y", "a">>,
      <<"k", "a", "h", "a", "n">>,
      <<"k", "y", "u", "n">>,
      <<"k", "a", "b">>,
      <<"k", "o", "i">>,
      <<"h", "a", "i">>,
      <<"h", "a", "i", "n">>,
      <<"k", "a", "r">>,
      <<"k", "a", "r", "n", "e">>,
      <<"k", "e">>,
      <<"k", "i">>,
      <<"k", "a">>,
      <<"m", "e", "i", "n">>,
      <<"m", "a", "i", "n">>,
      <<"s", "e">>,
      <<"p", "e">>,
      <<"p", "a", "r">>,
      <<"a", "u", "r">>,
      <<"y", "a">>,
      <<"j", "o">>,
      <<"j", "a", "b">>,
      <<"a", "g", "a", "r">>,
      <<"l", "e", "k", "i", "n">>,
      <<"p", "h", "i", "r">> }

hinglishFarmWords ==
    { <<"p", "a", "n", "i">>,
      <<"p", "a", "a", "n", "i">>,
      <<"k", "h", "a", "d">>,
      <<"k", "h", "a", "a", "d">>,
      <<"k", "e", "e", "t">>,
      <<"k", "i", "s", "a", "n">>,
      <<"f", "a", "s", "a", "l">>,
      <<"b", "i", "j", "l", "i">>,
      <<"b", "a", "r", "i", "s", "h">>,
      <<"m", "i", "t", "t", "i">>,
      <<"z", "a", "m", "e", "e", "n">>,
      <<"b", "a", "g", "w", "a", "n", "i">>,
      <<"p", "a", "s", "h", "u">>,
      <<"g", "a", "a", "y">>,
      <<"b", "h", "a", "i", "n", "s">> }

containsHinglishPattern(t) ==
    containsWord(t, hinglishFunctionWords) \/ containsWord(t, hinglishFarmWords)

hinglishToHindi ==
    << <<<<"p", "a", "n", "i">>, <<"U+092A", "U+093E", "U+0928", "U+0940">>>>,
       <<<<"p", "a", "a", "n", "i">>, <<"U+092A", "U+093E", "U+0928", "U+0940">>>>,
       <<<<"k", "h", "a", "d">>, <<"U+0916", "U+093E", "U+0926">>>>,
       <<<<"k", "h", "a", "a", "d">>, <<"U+0916", "U+093E", "U+0926">>>>,
       <<<<"k", "e", "e", "t">>, <<"U+0915", "U+0940", "U+091F">>>>,
       <<<<"k", "i", "s", "a", "n">>, <<"U+0915", "U+093F", "U+0938", "U+093E", "U+0928">>>>,
       <<<<"f", "a", "s", "a", "l">>, <<"U+092B", "U+0938", "U+0932">>>>,
       <<<<"m", "i", "t", "t", "i">>, <<"U+092E", "U+093F", "U+091F", "U+094D", "U+091F", "U+0940">>>>,
       <<<<"z", "a", "m", "e", "e", "n">>, <<"U+091C", "U+093C", "U+092E", "U+0940", "U+0928">>>>,
       <<<<"g", "a", "a", "y">>, <<"U+0917", "U+093E", "U+092F">>>>,
       <<<<"b", "h", "a", "i", "n", "s">>, <<"U+092D", "U+0948", "U+0902", "U+0938">>>>,
       <<<<"k", "a", "i", "s", "e">>, <<"U+0915", "U+0948", "U+0938", "U+0947">>>>,
       <<<<"k", "y", "a">>, <<"U+0915", "U+094D", "U+092F", "U+093E">>>>,
       <<<<"h", "a", "i">>, <<"U+0939", "U+0948">>>>,
       <<<<"k", "a", "r">>, <<"U+0915", "U+0930">>>>,
       <<<<"k", "e">>, <<"U+0915", "U+0947">>>>,
       <<<<"k", "i">>, <<"U+0915", "U+0940">>>>,
       <<<<"k", "a">>, <<"U+0915", "U+093E">>>>,
       <<<<"m", "e", "i", "n">>, <<"U+092E", "U+0947", "U+0902">>>>,
       <<<<"s", "e">>, <<"U+0938", "U+0947">>>> >>

transliterateHinglishWords(t) == applyDictionary(t, hinglishToHindi, 1)

correctAgricultureTerms(t) == applyDictionary(t, agricultureTerms, 1)

\* /[\u<lo>-\u<hi>]/.test(text)
hasScript(t, lo, hi) == \E i \in 1..Len(t) : InRange(t[i], lo, hi)

\* Step 2: the language by script, then by romanized Hindi words
detectByScript(t) ==
    IF hasScript(t, 2304, 2431) THEN "hin"
    ELSE IF hasScript(t, 2432, 2559) THEN "ben"
    ELSE IF hasScript(t, 2560, 2687) THEN "guj"
    ELSE IF hasScript(t, 2816, 2943) THEN "ori"
    ELSE IF containsHinglishPattern(t) THEN "hin-rom"
    ELSE "eng"

isValidText_TwoChars(t) ==
    Len(t) >= 2 /\ \E i \in 1..Len(t) : IsLetter(t[i])

\* Step 6: Validation
isValidText(t) ==
    Len(t) >= 3 /\ \E i \in 1..Len(t) : IsLetter(t[i])

invalidQueryMessage ==
    "Please enter a valid farming question (minimum 3 characters with letters)"

preprocessQuery(text) ==
    LET cleaned1  == cleanText(text)
        language2 == detectByScript(cleaned1)
        \* Step 3
        language3 == IF language2 = "eng" /\ hasScript(cleaned1, 2304, 2431)
                     THEN "hin" ELSE language2
        \* Step 4
        hinglish  == language3 = "eng" /\ containsHinglishPattern(cleaned1)
        cleaned4  == IF hinglish THEN transliterateHinglishWords(cleaned1) ELSE cleaned1
        language4 == IF hinglish THEN "hin-rom" ELSE language3
        \* Step 5
        cleaned5  == correctAgricultureTerms(cleaned4)
        isValid   == isValidText(cleaned5)
    IN [ originalText |-> text,
         cleanedText |-> cleaned5,
         detectedLanguage |-> language4,
         isValid |-> isValid,
         error |-> IF ~isValid THEN <<invalidQueryMessage>> ELSE <<>> ]

\* processed.extractedContext: the value of the property, undefined (the empty
\* sequence) when the object has no such property
extractedContext(p) ==
    IF "extractedContext" \in DOMAIN p
    THEN <<p.extractedContext>>
    ELSE <<>>

(***************************************************************************)
(* DataRetrievalAgent: cache                                               *)
(***************************************************************************)
cacheDuration ==
    [ weather  |-> 1 * 60 * 60,
      market   |-> 24 * 60 * 60,
      advisory |-> 24 * 60 * 60,
      soil     |-> 7 * 24 * 60 * 60,
      scheme   |-> 7 * 24 * 60 * 60 ]

\* crop?.name || 'general'
CropKey(crop) == IF crop = <<>> THEN "general" ELSE crop[1]

\* the template strings used as cache keys, as tuples of their parts
weatherKey(location)        == <<"weather", location.state, location.district>>
marketKey(location, crop)   == <<"market", location.state, CropKey(crop)>>
advisoryKey(location, crop) == <<"advisory", location.state, CropKey(crop)>>
soilKey(location)           == <<"soil", location.state, location.district>>
schemeKey(location)         == <<"schemes", location.state>>

CacheKeys ==
    {weatherKey(l) : l \in Locations} \cup {soilKey(l) : l \in Locations}
    \cup {schemeKey(l) : l \in Locations}
    \cup {marketKey(l, c) : l \in Locations, c \in Crops}
    \cup {advisoryKey(l, c) : l \in Locations, c \in Crops}

getFromCache_IgnoreExpiry(c, key, t) ==
    IF c[key] # <<>>
    THEN << [ c[key][1].data EXCEPT !.freshness = "cached",
                                    !.cacheTime = <<c[key][1].data.timestamp>> ] >>
    ELSE <<>>

getFromCache_KeepFreshness(c, key, t) ==
    IF c[key] # <<>> /\ c[key][1].expiry > t
    THEN << [ c[key][1].data EXCEPT !.cacheTime = <<c[key][1].data.timestamp>> ] >>
    ELSE <<>>

getFromCache(c, key, t) ==
    IF c[key] # <<>> /\ c[key][1].expiry > t
    THEN << [ c[key][1].data EXCEPT !.freshness = "cached",
                                    !.cacheTime = <<c[key][1].data.timestamp>> ] >>
    ELSE <<>>

\* a store that is lost
setCache_Forgets(c, key, data, type, t) == c

setCache(c, key, data, type, t) ==
    [ c EXCEPT ![key] = << [data |-> data, expiry |-> t + cacheDuration[type]] >> ]

(***************************************************************************)
(* DataRetrievalAgent: the five agents.  Each returns the list of data and *)
(* the cache after the call; p is the outcome of the random draws.         *)
(***************************************************************************)
Datum(source, type, data, confidence, t, location, freshness, cacheTime) ==
    [ source |-> source, type |-> type, data |-> data, confidence |-> confidence,
      timestamp |-> t, location |-> <<location>>, freshness |-> freshness,
      cacheTime |-> cacheTime, reliability |-> "high" ]

retrieveWeatherData(c, t, location, p) ==
    LET cacheKey == weatherKey(location)
        cached   == getFromCache(c, cacheKey, t)
        result   == Datum("Indian Meteorological Department", "weather",
                          [rnd |-> p, temperature |-> 25 + p, humidity |-> 60 + p],
                          90, t, location, "fresh", <<>>)
    IN IF cached # <<>>
       THEN [results |-> cached, cache |-> c]
       ELSE [results |-> <<result>>, cache |-> setCache(c, cacheKey, result, "weather", t)]

retrieveMarketData(c, t, location, crop, p) ==
    LET cacheKey == marketKey(location, crop)
        cached   == getFromCache(c, cacheKey, t)
        crops    == IF crop # <<>> THEN crop
                    ELSE <<"Rice", "Wheat", "Maize", "Cotton", "Sugarcane">>
        result   == Datum("AGMARKNET", "market",
                          [rnd |-> p, location |-> <<location.district, location.state>>,
                           prices |-> [i \in 1..Len(crops) |->
                                         [crop |-> crops[i], modalPrice |-> 1750 + p]]],
                          85, t, location, "fresh", <<>>)
    IN IF cached # <<>>
       THEN [results |-> cached, cache |-> c]
       ELSE [results |-> <<result>>, cache |-> setCache(c, cacheKey, result, "market", t)]

retrieveAdvisoryData(c, t, location, crop, p) ==
    LET cacheKey == advisoryKey(location, crop)
        cached   == getFromCache(c, cacheKey, t)
        result   == Datum("Agricultural Advisory Services", "advisory",
                          [advisories |-> <<"Weather-based Advisory", "Pest Management",
                                            "Fertilizer Recommendation">>,
                           forCrop |-> IF crop # <<>> THEN crop[1] ELSE "major crops",
                           location |-> <<location.district, location.state>>],
                          80, t, location, "fresh", <<>>)
    IN IF cached # <<>>
       THEN [results |-> cached, cache |-> c]
       ELSE [results |-> <<result>>, cache |-> setCache(c, cacheKey, result, "advisory", t)]

retrieveSoilData(c, t, location, p) ==
    LET cacheKey == soilKey(location)
        cached   == getFromCache(c, cacheKey, t)
        result   == Datum("Soil Health Card Program", "soil",
                          [rnd |-> p, district |-> location.district,
                           state |-> location.state],
                          85, t, location, "cached",
                          <<t - 30 * 24 * 60 * 60>>)
    IN IF cached # <<>>
       THEN [results |-> cached, cache |-> c]
       ELSE [results |-> <<result>>, cache |-> setCache(c, cacheKey, result, "soil", t)]

retrieveSchemeData(c, t, location, p) ==
    LET cacheKey == schemeKey(location)
        cached   == getFromCache(c, cacheKey, t)
        result   == Datum("Government Scheme Database", "scheme",
                          [schemes |-> <<"PM-KISAN", "Pradhan Mantri Fasal Bima Yojana",
                                         "Soil Health Card Scheme">>,
                           state |-> location.state],
                          90, t, location, "fresh", <<>>)
    IN IF cached # <<>>
       THEN [results |-> cached, cache |-> c]
       ELSE [results |-> <<result>>, cache |-> setCache(c, cacheKey, result, "scheme", t)]

\* one agent, selected by the type of data it retrieves
retrieveByType(type, c, t, location, crop, p) ==
    CASE type = "weather"  -> retrieveWeatherData(c, t, location, p)
      [] type = "market"   -> retrieveMarketData(c, t, location, crop, p)
      [] type = "advisory" -> retrieveAdvisoryData(c, t, location, crop, p)
      [] type = "soil"     -> retrieveSoilData(c, t, location, p)
      [] type = "scheme"   -> retrieveSchemeData(c, t, location, p)

keyByType(type, location, crop) ==
    CASE type = "weather"  -> weatherKey(location)
      [] type = "market"   -> marketKey(location, crop)
      [] type = "advisory" -> advisoryKey(location, crop)
      [] type = "soil"     -> soilKey(location)
      [] type = "scheme"   -> schemeKey(location)

(***************************************************************************)
(* DataRetrievalAgent.retrieveAllRelevantData: the agents applicable to    *)
(* the context, awaited one after the other; pay[type] is the outcome of   *)
(* the random draws of each agent.                                         *)
(***************************************************************************)
\* the agents whose payload holds random draws
RandomTypes == {"weather", "market", "soil"}

\* the step of one agent inside the batch: r is the batch so far, wanted the condition
Step(r, wanted, type, t, location, crop, pay) ==
    IF wanted
    THEN LET p == IF type \in RandomTypes THEN pay[type] ELSE 1
             a == retrieveByType(type, r.cache, t, location, crop, p)
         IN [results |-> r.results \o a.results, cache |-> a.cache]
    ELSE r

wantsMarket_Always(ctx) == TRUE

wantsMarket(ctx) ==
    ctx.crop # <<>> \/ "market" \in ctx.queryType \/ "price" \in ctx.queryType

wantsSoil(ctx) == "soil" \in ctx.queryType \/ "fertilizer" \in ctx.queryType

wantsScheme(ctx) == "scheme" \in ctx.queryType \/ "subsidy" \in ctx.queryType

retrieveAllRelevantData(c, t, ctx, pay) ==
    LET r0 == [results |-> <<>>, cache |-> c]
    IN IF ctx.location # <<>>
       THEN LET loc == ctx.location[1]
                r1  == Step(r0, TRUE, "weather", t, loc, ctx.crop, pay)
                r2  == Step(r1, wantsMarket(ctx), "market", t, loc, ctx.crop, pay)
                r3  == Step(r2, TRUE, "advisory", t, loc, ctx.crop, pay)
                r4  == Step(r3, wantsSoil(ctx), "soil", t, loc, ctx.crop, pay)
                r5  == Step(r4, wantsScheme(ctx), "scheme", t, loc, ctx.crop, pay)
            IN r5
       ELSE r0

(***************************************************************************)
(* RetrievalAugmentedGeneration.retrieveDataWithRetries                    *)
(***************************************************************************)
maxRetries == 3

\* setTimeout(resolve, 1000), in seconds
retryDelay == 1

\* the locals of a run that has not started: retrievedData = [], attempts = 0
RetryIdle ==
    [ pc |-> "idle", attempts |-> 0, retrievedData |-> <<>>, log |-> <<>>,
      returned |-> <<>> ]

getCachedFallbackData_Fresh(ctx, t) ==
    IF ctx.location # <<>>
    THEN << [ Datum("Last Known Data", "weather",
                    [temperature |-> 28, humidity |-> 65],
                    30, t, ctx.location[1], "fresh", <<>>)
              EXCEPT !.reliability = "low" ] >>
    ELSE <<>>

getCachedFallbackData(ctx, t) ==
    IF ctx.location # <<>>
    THEN << [ Datum("Last Known Data", "weather",
                    [temperature |-> 28, humidity |-> 65],
                    30, t, ctx.location[1], "stale", <<>>)
              EXCEPT !.reliability = "low" ] >>
    ELSE <<>>

\* while (attempts < this.maxRetries && retrievedData.length === 0)
loopContinues(attempts, retrievedData) ==
    attempts < maxRetries /\ Len(retrievedData) = 0

waitsBeforeRetry_Always(attempts) == TRUE

\* if (attempts < this.maxRetries) await new Promise(... setTimeout ...)
waitsBeforeRetry(attempts) == attempts < maxRetries

\* the code after the loop: the fallback when there is still no data, and the return
finish(r, ctx, t) ==
    [ r EXCEPT !.pc = "done",
               !.returned = << IF Len(r.retrievedData) = 0
                               THEN getCachedFallbackData(ctx, t)
                               ELSE r.retrievedData >>,
               !.retrievedData = IF Len(r.retrievedData) = 0
                                 THEN getCachedFallbackData(ctx, t)
                                 ELSE r.retrievedData ]

\* the loop from the return of one awaited batch to the next suspension point:
\* outcome is the list the batch resolved with, or <<"rejected">>
afterAttempt(r, outcome, ctx, t) ==
    LET rejected == outcome = <<"rejected">>
        data     == IF rejected THEN r.retrievedData ELSE outcome
        kind     == IF rejected THEN "threw"
                    ELSE IF Len(outcome) > 0 THEN "data" ELSE "empty"
        logged   == [ r EXCEPT !.retrievedData = data,
                               !.log = Append(r.log, [kind |-> kind, at |-> t, data |-> data]) ]
    IN IF ~rejected /\ Len(data) > 0
       THEN finish(logged, ctx, t)                                   \* break
       ELSE LET counted == [logged EXCEPT !.attempts = r.attempts + 1]
            IN IF waitsBeforeRetry(counted.attempts)
               THEN [counted EXCEPT !.pc = "wait"]
               ELSE IF loopContinues(counted.attempts, counted.retrievedData)
                    THEN [counted EXCEPT !.pc = "attempt"]
                    ELSE finish(counted, ctx, t)

(***************************************************************************)
(* RetrievalAugmentedGeneration: the helpers of generateAdvice.  A         *)
(* RAGResponse is modelled by its answer (the list of the sections the     *)
(* text is made of), sources, confidence, factualBasis and disclaimer (the *)
(* list of the parts the string is made of; empty when undefined).         *)
(***************************************************************************)
getFallbackAdvisory(text, lang, reason) ==
    [ answer |-> << "heading",
                    IF reason \in {"Invalid query format", "System temporarily unavailable"}
                    THEN "couldNotBeAnswered" ELSE "generalGuidance" >>,
      sources |-> <<>>,
      confidence |-> 40,
      factualBasis |-> "low",
      disclaimer |-> <<"Based on general agricultural knowledge - ", reason>> ]

getBasicOfflineResponse(text, lang) == getFallbackAdvisory(text, lang, "Offline mode")

\* the result of the health check: the new systemHealth, and whether the call threw.
\* online and stats are the outcomes of offlineCache.isOnline() and getCacheStats()
checkSystemHealth_NoCatch(health, online, stats) ==
    IF online = "throws" THEN [systemHealth |-> health, threw |-> TRUE]
    ELSE LET h1 == [health EXCEPT !.apiStatus = (online = "true")]
         IN IF stats = "throws" THEN [systemHealth |-> h1, threw |-> TRUE]
            ELSE [ systemHealth |-> [h1 EXCEPT !.cacheStatus = (stats = "counted")],
                   threw |-> FALSE ]

checkSystemHealth(health, online, stats) ==
    IF online = "throws" THEN [systemHealth |-> health, threw |-> FALSE]
    ELSE LET h1 == [health EXCEPT !.apiStatus = (online = "true")]
         IN IF stats = "throws" THEN [systemHealth |-> h1, threw |-> FALSE]
            ELSE [ systemHealth |-> [h1 EXCEPT !.cacheStatus = (stats = "counted")],
                   threw |-> FALSE ]

getSystemHealthDisclaimer(health) ==
    LET issues == (IF ~health.apiStatus THEN <<"Limited connectivity">> ELSE <<>>)
                  \o (IF ~health.cacheStatus THEN <<"Cache unavailable">> ELSE <<>>)
    IN IF Len(issues) > 0 THEN issues \o <<" - Using available data">> ELSE <<>>

\* sources.find(s => s.type === type)?.data is defined
hasSource(sources, type) == \E i \in 1..Len(sources) : sources[i].type = type

\* sources.find(s => s.type === type), for a list that has such a source
findSource(sources, type) ==
    sources[CHOOSE i \in 1..Len(sources) :
                /\ sources[i].type = type
                /\ \A j \in 1..(i - 1) : sources[j].type # type]

formatFarmerFriendlyResponse_KeepsAnswer(resp, sources, lang, originalQuery) ==
    [ resp EXCEPT !.answer =
        (IF originalQuery # <<>> THEN <<"heading">> ELSE <<>>)
        \o resp.answer \o <<"tips", "transparency">> ]

\* the sections of the formatted answer, in order
formatFarmerFriendlyResponse(resp, sources, lang, originalQuery) ==
    [ resp EXCEPT !.answer =
        (IF originalQuery # <<>> THEN <<"heading">> ELSE <<>>)
        \o <<"title">>
        \o (IF hasSource(sources, "weather") THEN <<"weather">> ELSE <<>>)
        \o <<"market">>
        \o (IF hasSource(sources, "market")
            THEN LET marketData == findSource(sources, "market").data
                 IN (IF "prices" \in DOMAIN marketData /\ Len(marketData.prices) > 0
                     THEN <<"prices">> ELSE <<>>)
                    \o (IF "missingDataNote" \in DOMAIN marketData
                        THEN <<"missingDataNote">> ELSE <<>>)
                    \o <<"marketSource">>
            ELSE <<"marketUnavailable">>)
        \o (IF hasSource(sources, "soil") THEN <<"soil">> ELSE <<>>)
        \o (IF hasSource(sources, "advisory") THEN <<"advisory">> ELSE <<>>)
        \o (IF hasSource(sources, "scheme") THEN <<"scheme">> ELSE <<>>)
        \o <<"tips", "transparency">> ]

assessFactualBasis_OneFresh(data) ==
    LET freshData == SelectSeq(data, LAMBDA d : d.freshness = "fresh")
    IN IF Len(freshData) >= 1 THEN "high"
       ELSE IF Len(data) >= 2 THEN "medium"
       ELSE "low"

assessFactualBasis(data) ==
    LET freshData == SelectSeq(data, LAMBDA d : d.freshness = "fresh")
    IN IF Len(freshData) >= 2 THEN "high"
       ELSE IF Len(data) >= 2 THEN "medium"
       ELSE "low"

\* context is undefined: reading context.location throws a TypeError
constructInitialPrompt(ctx) == IF ctx = <<>> THEN "TypeError" ELSE "prompt"

\* outcomes of supabase.functions.invoke('generate-advice'): the advice, a reply
\* without advice (or with an empty one), a reply without data and without error, an
\* error status, a transport error (the call throws)
LLMOutcomes == {"advice", "noAdvice", "noData", "error", "throws"}

LLMFailures == {"error", "throws"}

\* the advice texts the generation service is taken to return: one with 'today',
\* one with 'Latest' (capitalised), one with 'currently', one with none of the
\* three words
WaterToday == <<"w", "a", "t", "e", "r", " ", "t", "o", "d", "a", "y">>

LatestSeeds == <<"L", "a", "t", "e", "s", "t", " ", "s", "e", "e", "d", "s">>

CurrentlyDry == <<"c", "u", "r", "r", "e", "n", "t", "l", "y", " ", "d", "r", "y">>

UseCompost == <<"u", "s", "e", " ", "c", "o", "m", "p", "o", "s", "t">>

Advices == {WaterToday, LatestSeeds, CurrentlyDry, UseCompost}

\* 'Unable to generate response.'
UnableToGenerate ==
    << "U", "n", "a", "b", "l", "e", " ", "t", "o", " ", "g", "e", "n", "e",
       "r", "a", "t", "e", " ", "r", "e", "s", "p", "o", "n", "s", "e", "." >>

\* 'I apologize, but I cannot provide advice at the moment. Please try again later.'
Apology ==
    << "I", " ", "a", "p", "o", "l", "o", "g", "i", "z", "e", ",", " ", "b",
       "u", "t", " ", "I", " ", "c", "a", "n", "n", "o", "t", " ", "p", "r",
       "o", "v", "i", "d", "e", " ", "a", "d", "v", "i", "c", "e", " ", "a",
       "t", " ", "t", "h", "e", " ", "m", "o", "m", "e", "n", "t", ".", " ",
       "P", "l", "e", "a", "s", "e", " ", "t", "r", "y", " ", "a", "g", "a",
       "i", "n", " ", "l", "a", "t", "e", "r", "." >>

\* the string callLLM resolves with: chars, its characters; text, the name of the
\* section it makes in an answer.  advice is data.advice of the service's response
callLLM_EmptyOnThrow(outcome, advice) ==
    CASE outcome = "advice"   -> [text |-> "advice", chars |-> advice]
      [] outcome = "noAdvice" -> [text |-> "Unable to generate response.",
                                  chars |-> UnableToGenerate]
      [] outcome = "throws"   -> [text |-> "", chars |-> <<>>]
      [] OTHER -> [text |-> "I apologize, but I cannot provide advice at the moment. Please try again later.",
                   chars |-> Apology]

callLLM(outcome, advice) ==
    CASE outcome = "advice"   -> [text |-> "advice", chars |-> advice]
      [] outcome = "noAdvice" -> [text |-> "Unable to generate response.",
                                  chars |-> UnableToGenerate]
      [] OTHER -> [text |-> "I apologize, but I cannot provide advice at the moment. Please try again later.",
                   chars |-> Apology]

\* String.prototype.includes: word occurs in text at some position, case-sensitively
includes(text, word) ==
    \E i \in 1..(Len(text) - Len(word) + 1) :
        \A k \in 1..Len(word) : text[i + k - 1] = word[k]

shouldGroundResponse_ContextOnly(ctx, initialAnswer) ==
    \/ ctx.location # <<>> \/ ctx.crop # <<>>
    \/ ctx.queryType \cap {"weather", "market", "price", "scheme"} # {}

shouldGroundResponse(ctx, initialAnswer) ==
    \/ ctx.location # <<>> \/ ctx.crop # <<>>
    \/ ctx.queryType \cap {"weather", "market", "price", "scheme"} # {}
    \/ includes(initialAnswer.chars, <<"c", "u", "r", "r", "e", "n", "t">>)
    \/ includes(initialAnswer.chars, <<"l", "a", "t", "e", "s", "t">>)
    \/ includes(initialAnswer.chars, <<"t", "o", "d", "a", "y">>)

\* data.data.requestedCrop: undefined when the payload has no such property
requestedCrop(d) ==
    IF "requestedCrop" \in DOMAIN d.data THEN <<d.data.requestedCrop>> ELSE <<>>

filterRelevantData_DropsOtherPlace(retrievedData, ctx) ==
    SelectSeq(retrievedData,
              LAMBDA d : /\ ~(/\ ctx.crop # <<>>
                              /\ d.type = "market"
                              /\ requestedCrop(d) # <<>>
                              /\ requestedCrop(d)[1] # ctx.crop[1])
                         /\ ~(/\ ctx.location # <<>> /\ d.location # <<>>
                              /\ d.location[1].state # ctx.location[1].state
                              /\ d.location[1].district # ctx.location[1].district))

filterRelevantData(retrievedData, ctx) ==
    SelectSeq(retrievedData,
              LAMBDA d : ~(/\ ctx.crop # <<>>
                           /\ d.type = "market"
                           /\ requestedCrop(d) # <<>>
                           /\ requestedCrop(d)[1] # ctx.crop[1]))

Min(a, b) == IF a < b THEN a ELSE b

calculateDynamicConfidence_Uncapped(retrievedData, ctx) ==
    LET n      == Len(retrievedData)
        fresh  == Len(SelectSeq(retrievedData, LAMBDA d : d.freshness = "fresh"))
        base   == 50 + (IF n > 0 THEN (fresh * 30) \div n ELSE 0)
        crop   == IF /\ ctx.crop # <<>>
                     /\ \E i \in 1..n : /\ retrievedData[i].type = "market"
                                        /\ requestedCrop(retrievedData[i]) = ctx.crop
                  THEN 15 ELSE 0
        place  == IF /\ ctx.location # <<>>
                     /\ \E i \in 1..n :
                          /\ retrievedData[i].location # <<>>
                          /\ \/ retrievedData[i].location[1].state = ctx.location[1].state
                             \/ retrievedData[i].location[1].district = ctx.location[1].district
                  THEN 10 ELSE 0
        types  == Cardinality({retrievedData[i].type : i \in 1..n})
    IN base + crop + place + Min(types * 5, 20)

\* in percent; the share of fresh data is rounded down to a whole percent
calculateDynamicConfidence(retrievedData, ctx) ==
    LET n      == Len(retrievedData)
        fresh  == Len(SelectSeq(retrievedData, LAMBDA d : d.freshness = "fresh"))
        base   == 50 + (IF n > 0 THEN (fresh * 30) \div n ELSE 0)
        crop   == IF /\ ctx.crop # <<>>
                     /\ \E i \in 1..n : /\ retrievedData[i].type = "market"
                                        /\ requestedCrop(retrievedData[i]) = ctx.crop
                  THEN 15 ELSE 0
        place  == IF /\ ctx.location # <<>>
                     /\ \E i \in 1..n :
                          /\ retrievedData[i].location # <<>>
                          /\ \/ retrievedData[i].location[1].state = ctx.location[1].state
                             \/ retrievedData[i].location[1].district = ctx.location[1].district
                  THEN 10 ELSE 0
        types  == Cardinality({retrievedData[i].type : i \in 1..n})
    IN Min(base + crop + place + Min(types * 5, 20), 95)

createSourceReferences(retrievedData) ==
    [ i \in 1..Len(retrievedData) |->
        [ source |-> retrievedData[i].source, type |-> retrievedData[i].type,
          data |-> retrievedData[i].data, confidence |-> retrievedData[i].confidence,
          freshness |-> retrievedData[i].freshness ] ]

\* the serialization of the data: for each datum its type, source, confidence,
\* freshness and the fields of its payload
buildFactualContext(retrievedData) ==
    [ i \in 1..Len(retrievedData) |->
        [ type |-> retrievedData[i].type, source |-> retrievedData[i].source,
          confidence |-> retrievedData[i].confidence,
          freshness |-> retrievedData[i].freshness, data |-> retrievedData[i].data ] ]

constructGroundedPrompt_DataOnly(text, initialAnswer, factualContext, lang) ==
    [kind |-> "grounded", initialAnswer |-> <<>>, data |-> factualContext]

\* the parts of the grounded prompt that vary: YOUR INITIAL ANSWER and CURRENT
\* VERIFIED DATA
constructGroundedPrompt(text, initialAnswer, factualContext, lang) ==
    [kind |-> "grounded", initialAnswer |-> initialAnswer.chars, data |-> factualContext]

\* the answer of generateSuggestedQuestionsResponse: the heading, the apology and the
\* suggestions, which name the context's district and state, or a generic region
generateSuggestedQuestionsResponse(text, lang, ctx) ==
    LET location == IF ctx.location # <<>>
                    THEN <<ctx.location[1].district, ", ", ctx.location[1].state>>
                    ELSE IF lang = "hi" THEN <<"aapka kshetra">> ELSE <<"your region">>
    IN <<"heading", "couldNotBeAnswered", "suggestionsFor">> \o location

\* private systemHealth = { apiStatus: true, cacheStatus: true, ... }
InitialHealth == [apiStatus |-> TRUE, cacheStatus |-> TRUE]

\* const maxRetries = 3 of submitQuery
saveMaxRetries == 3

\* the delay of the save status check, in seconds: setTimeout(..., 2000)
noteDelay == 2

\* the background save of one submitQuery before it has started: savedToDatabase =
\* false, retryCount = 0, no timer set.  pc: "inflight" while an insert is awaited,
\* "wait" while a retry is scheduled for the time due, "done" when nothing is
\* pending; note: the timer of the save status check and what it showed; rejected:
\* the promise of attemptSave was rejected; log: the inserts and their outcomes
SaveIdle ==
    [ pc |-> "idle", savedToDatabase |-> FALSE, retryCount |-> 0, due |-> 0,
      note |-> "none", noteDue |-> 0, rejected |-> FALSE, log |-> <<>> ]

\* attemptSave up to the awaited insert
attemptSave(s, t) ==
    [ s EXCEPT !.pc = "inflight",
               !.log = Append(s.log, [kind |-> "insert", at |-> t, delay |-> 0]) ]

\* the insert resolved with data and without error
saveSucceeded(s, t) ==
    [ s EXCEPT !.pc = "done", !.savedToDatabase = TRUE,
               !.log = Append(s.log, [kind |-> "saved", at |-> t, delay |-> 0]) ]

saveFailed_FourAttempts(s, t) ==
    LET n == s.retryCount + 1
    IN IF n < saveMaxRetries + 1
       THEN [ s EXCEPT !.pc = "wait", !.retryCount = n, !.due = t + 1 * n,
                       !.log = Append(s.log, [kind |-> "failed", at |-> t, delay |-> 1 * n]) ]
       ELSE [ s EXCEPT !.pc = "done", !.retryCount = n,
                       !.log = Append(s.log, [kind |-> "failed", at |-> t, delay |-> 0]) ]

saveFailed_Rethrows(s, t) ==
    LET n == s.retryCount + 1
    IN IF n < saveMaxRetries
       THEN [ s EXCEPT !.pc = "wait", !.retryCount = n, !.due = t + 1 * n,
                       !.log = Append(s.log, [kind |-> "failed", at |-> t, delay |-> 1 * n]) ]
       ELSE [ s EXCEPT !.pc = "done", !.retryCount = n, !.rejected = TRUE,
                       !.log = Append(s.log, [kind |-> "failed", at |-> t, delay |-> 0]) ]

\* the catch block of attemptSave: the insert resolved with an error or without
\* data, or threw.  The delay of the retry is 1000 * retryCount milliseconds
saveFailed(s, t) ==
    LET n == s.retryCount + 1
    IN IF n < saveMaxRetries
       THEN [ s EXCEPT !.pc = "wait", !.retryCount = n, !.due = t + 1 * n,
                       !.log = Append(s.log, [kind |-> "failed", at |-> t, delay |-> 1 * n]) ]
       ELSE [ s EXCEPT !.pc = "done", !.retryCount = n,
                       !.log = Append(s.log, [kind |-> "failed", at |-> t, delay |-> 0]) ]

\* no helper has been called on its own, no save has started
NoExtra ==
    /\ helperResult = <<>>
    /\ save = SaveIdle
    /\ requests = <<>>

\* no request has been submitted
NoRequest ==
    /\ NoExtra
    /\ query = <<>>
    /\ language = "en"
    /\ processed = <<>>
    /\ pc = "idle"
    /\ hook = "none"
    /\ systemHealth = InitialHealth
    /\ draft = <<>>
    /\ llmLog = <<>>
    /\ response = <<>>
    /\ raised = FALSE
    /\ shown = <<>>

(***************************************************************************)
(* Specification SpecAgent: one agent called directly, any number of times *)
(* with any arguments, with the clock advancing between calls.  The agent  *)
(* is chosen initially; the agents' cache keys are disjoint by their type  *)
(* prefix.                                                                 *)
(***************************************************************************)
\* clock advances that reach the TTL boundary of an agent's entries from their
\* store: to one second before the boundary, and onto it
Deltas(type) == { 1, cacheDuration[type] - 1 }

EmptyCache == [k \in CacheKeys |-> <<>>]

InitAgent ==
    /\ now = 0
    /\ cache = EmptyCache
    /\ nCalls = 0
    /\ nTicks = 0
    /\ agent \in Types
    /\ first = <<>>
    /\ last = <<>>
    /\ context = NoContext
    /\ batch = <<>>
    /\ nBatches = 0
    /\ retry = RetryIdle
    /\ NoRequest

Tick ==
    /\ nTicks < MaxTicks
    /\ \E d \in Deltas(agent) : now' = now + d
    /\ nTicks' = nTicks + 1
    /\ UNCHANGED <<extraVars, cache, nCalls, agent, first, last, batchVars, retry, reqVars>>

\* one call of an agent; the call is recorded, and may become the remembered one
Invoke(type, location, crop, p, track) ==
    LET r    == retrieveByType(type, cache, now, location, crop, p)
        call == [ seq |-> nCalls + 1, type |-> type, location |-> location,
                  crop |-> crop, at |-> now,
                  before |-> cache[keyByType(type, location, crop)],
                  result |-> r.results ]
    IN /\ nCalls < MaxCalls
       /\ cache' = r.cache
       /\ nCalls' = nCalls + 1
       /\ last' = <<call>>
       /\ first' = IF track THEN <<call>> ELSE first
       /\ UNCHANGED <<extraVars, now, nTicks, agent, batchVars, retry, reqVars>>

CallWeather ==
    \E l \in Locations, p \in Payloads, track \in BOOLEAN :
        /\ agent = "weather"
        /\ Invoke("weather", l, <<>>, p, track)

CallMarket ==
    \E l \in Locations, c \in Crops, p \in Payloads, track \in BOOLEAN :
        /\ agent = "market"
        /\ Invoke("market", l, c, p, track)

CallAdvisory ==
    \E l \in Locations, c \in Crops, track \in BOOLEAN :
        /\ agent = "advisory"
        /\ Invoke("advisory", l, c, 1, track)

CallSoil ==
    \E l \in Locations, p \in Payloads, track \in BOOLEAN :
        /\ agent = "soil"
        /\ Invoke("soil", l, <<>>, p, track)

CallScheme ==
    \E l \in Locations, track \in BOOLEAN :
        /\ agent = "scheme"
        /\ Invoke("scheme", l, <<>>, 1, track)

NextAgent ==
    \/ Tick
    \/ CallWeather
    \/ CallMarket
    \/ CallAdvisory
    \/ CallSoil
    \/ CallScheme

SpecAgent == InitAgent /\ [][NextAgent]_vars

(***************************************************************************)
(* Claims about the agents' cache                                          *)
(***************************************************************************)
\* the TTL of each data type as the data model states it, in seconds
HourSec == 60 * 60
StatedTTL == [ weather |-> HourSec, market |-> 24 * HourSec, advisory |-> 24 * HourSec,
               soil |-> 7 * 24 * HourSec, scheme |-> 7 * 24 * HourSec ]

\* the call returned the entry that was in the cache before it
ReturnedEntry(call) ==
    /\ call.before # <<>>
    /\ Len(call.result) = 1
    /\ call.result[1].timestamp = call.before[1].data.timestamp
    /\ call.result[1].data = call.before[1].data.data
    /\ call.result[1].cacheTime = <<call.before[1].data.timestamp>>

\* the entry that was in the cache before the call was still within its TTL
EntryLive(call) ==
    /\ call.before # <<>>
    /\ call.at < call.before[1].data.timestamp + StatedTTL[call.type]

\* the call synthesized a new datum at the time of the call
Synthesized(call) ==
    /\ Len(call.result) = 1
    /\ call.result[1].timestamp = call.at
    /\ call.result[1].type = call.type
    /\ call.result[1].cacheTime \in {<<>>, <<call.at - 30 * 24 * HourSec>>}

\* C2: an agent returns the cached entry only while the current time is strictly
\* before the entry's store time plus the TTL of its type (weather 1 h, market and
\* advisory 24 h, soil and scheme 7 d); an expired entry is never returned, a fresh
\* payload is synthesized instead.
C2_NoExpiredHit ==
    last # <<>> =>
        /\ ReturnedEntry(last[1]) => EntryLive(last[1])
        /\ ~EntryLive(last[1]) => /\ Synthesized(last[1])
                                  /\ ~ReturnedEntry(last[1])

\* an entry was stored, its TTL ran out, and the agent was called again
C2_Witness ==
    /\ last # <<>>
    /\ last[1].before # <<>>
    /\ ~EntryLive(last[1])
    /\ Synthesized(last[1])

C2_WitnessHit ==
    /\ last # <<>>
    /\ ReturnedEntry(last[1])
    /\ last[1].at > last[1].before[1].data.timestamp

\* two calls of the same agent with the same (type, location, crop), the remembered
\* one first
SameRequest(a, b) ==
    /\ a.seq < b.seq
    /\ a.type = b.type
    /\ a.location = b.location
    /\ a.crop = b.crop

\* the later call returned exactly one datum, marked cached, with the payload the
\* earlier call returned
SecondIsCachedCopy(a, b) ==
    /\ Len(b.result) = 1
    /\ b.result[1].freshness = "cached"
    /\ Len(a.result) = 1
    /\ b.result[1].data = a.result[1].data

\* C3 as stated: for any two calls of the same agent with the same (type, location,
\* crop), the second within the TTL window that starts at the first CALL, the second
\* returns exactly one datum, marked cached, with the payload of the first.
C3_AsStated ==
    (first # <<>> /\ last # <<>>) =>
        ( ( /\ SameRequest(first[1], last[1])
            /\ last[1].at < first[1].at + StatedTTL[last[1].type] )
          => SecondIsCachedCopy(first[1], last[1]) )

\* C3 amended: the TTL window starts when the datum returned by the first call was
\* stored (its timestamp), not when the first call was made.
C3_CachedWithinStoreWindow ==
    (first # <<>> /\ last # <<>>) =>
        ( ( /\ SameRequest(first[1], last[1])
            /\ Len(first[1].result) = 1
            /\ last[1].at < first[1].result[1].timestamp + StatedTTL[last[1].type] )
          => SecondIsCachedCopy(first[1], last[1]) )

\* a second call was served from the cache after the clock had advanced, within the
\* window of the store
C3_Witness ==
    /\ first # <<>> /\ last # <<>>
    /\ SameRequest(first[1], last[1])
    /\ last[1].at > first[1].at
    /\ last[1].at < first[1].result[1].timestamp + StatedTTL[last[1].type]
    /\ SecondIsCachedCopy(first[1], last[1])

(***************************************************************************)
(* Specification SpecBatch: retrieveAllRelevantData called for any context,*)
(* up to MaxBatches times on the same agent, the clock advancing between.  *)
(***************************************************************************)
InitBatch ==
    /\ now = 0
    /\ cache = EmptyCache
    /\ nCalls = 0
    /\ nTicks = 0
    /\ agent = "weather"
    /\ first = <<>>
    /\ last = <<>>
    /\ context \in Contexts
    /\ batch = <<>>
    /\ nBatches = 0
    /\ retry = RetryIdle
    /\ NoRequest

RetrieveAll ==
    /\ nBatches < MaxBatches
    /\ \E pay \in [RandomTypes -> Payloads] :
         LET r == retrieveAllRelevantData(cache, now, context, pay)
         IN /\ cache' = r.cache
            /\ batch' = <<r.results>>
    /\ nBatches' = nBatches + 1
    /\ UNCHANGED <<extraVars, now, nCalls, nTicks, agent, first, last, context, retry, reqVars>>

BatchTick ==
    /\ nTicks < MaxTicks
    /\ \E d \in Deltas("weather") : now' = now + d
    /\ nTicks' = nTicks + 1
    /\ UNCHANGED <<extraVars, cache, nCalls, agent, first, last, batchVars, retry, reqVars>>

NextBatch ==
    \/ RetrieveAll
    \/ BatchTick

SpecBatch == InitBatch /\ [][NextBatch]_vars

\* the number of data of a type in a list
CountType(list, type) == Cardinality({i \in 1..Len(list) : list[i].type = type})

HasLocation(ctx) == ctx.location # <<>>

\* C4: the batch includes a datum of each type exactly under these conditions:
\* weather and advisory iff a location is known; market iff a location is known and
\* (a crop is present or the query types include market or price); soil iff a
\* location is known and the query types include soil or fertilizer; scheme iff a
\* location is known and the query types include scheme or subsidy.  With a known
\* location, no crop and no price-related type: a weather datum and no market datum.
C4_TypesIncluded ==
    batch # <<>> =>
        LET b == batch[1]
            q == context.queryType
        IN /\ CountType(b, "weather") > 0 <=> HasLocation(context)
           /\ CountType(b, "advisory") > 0 <=> HasLocation(context)
           /\ CountType(b, "market") > 0 <=>
                 (HasLocation(context) /\ (context.crop # <<>> \/ q \cap {"market", "price"} # {}))
           /\ CountType(b, "soil") > 0 <=>
                 (HasLocation(context) /\ q \cap {"soil", "fertilizer"} # {})
           /\ CountType(b, "scheme") > 0 <=>
                 (HasLocation(context) /\ q \cap {"scheme", "subsidy"} # {})
           /\ (HasLocation(context) /\ context.crop = <<>> /\ q \cap {"market", "price"} = {})
                 => (CountType(b, "weather") > 0 /\ CountType(b, "market") = 0)

\* a batch for a context with a location, no crop and no price-related query type
C4_Witness ==
    /\ batch # <<>>
    /\ HasLocation(context) /\ context.crop = <<>>
    /\ context.queryType = {"soil", "subsidy"}
    /\ CountType(batch[1], "weather") = 1 /\ CountType(batch[1], "market") = 0
    /\ CountType(batch[1], "soil") = 1 /\ CountType(batch[1], "scheme") = 1

(***************************************************************************)
(* Specification SpecRetry: one run of retrieveDataWithRetries for any     *)
(* context; each awaited batch either resolves with the agent's list or    *)
(* rejects.                                                                *)
(***************************************************************************)
RetryContexts ==
    { c \in Contexts : c.queryType \in { {}, {"market"}, {"soil", "subsidy"} } }

InitRetry ==
    /\ now = 0
    /\ cache = EmptyCache
    /\ nCalls = 0
    /\ nTicks = 0
    /\ agent = "weather"
    /\ first = <<>>
    /\ last = <<>>
    /\ context \in RetryContexts
    /\ batch = <<>>
    /\ nBatches = 0
    /\ retry = IF loopContinues(0, <<>>)
               THEN [RetryIdle EXCEPT !.pc = "attempt"]
               ELSE finish(RetryIdle, context, 0)
    /\ NoRequest

\* retrievedData = await dataAgent.retrieveAllRelevantData(context) resolves
RetryAttemptResolves ==
    /\ retry.pc = "attempt"
    /\ \E pay \in [RandomTypes -> Payloads] :
         LET r == retrieveAllRelevantData(cache, now, context, pay)
         IN /\ cache' = r.cache
            /\ batch' = <<r.results>>
            /\ retry' = afterAttempt(retry, r.results, context, now)
    /\ nBatches' = nBatches + 1
    /\ UNCHANGED <<extraVars, now, nCalls, nTicks, agent, first, last, context, reqVars>>

\* the awaited batch rejects: the catch clause logs a warning
RetryAttemptRejects ==
    /\ retry.pc = "attempt"
    /\ retry' = afterAttempt(retry, <<"rejected">>, context, now)
    /\ nBatches' = nBatches + 1
    /\ UNCHANGED <<extraVars, now, cache, nCalls, nTicks, agent, first, last, context, batch, reqVars>>

\* the timer of the delay fires; the loop condition is evaluated again
RetryWait ==
    /\ retry.pc = "wait"
    /\ now' = now + retryDelay
    /\ retry' = LET waited == [retry EXCEPT !.log = Append(retry.log,
                                   [kind |-> "wait", at |-> now + retryDelay, data |-> <<>>])]
                IN IF loopContinues(waited.attempts, waited.retrievedData)
                   THEN [waited EXCEPT !.pc = "attempt"]
                   ELSE finish(waited, context, now + retryDelay)
    /\ UNCHANGED <<extraVars, cache, nCalls, nTicks, agent, first, last, batchVars, reqVars>>

NextRetry ==
    \/ RetryAttemptResolves
    \/ RetryAttemptRejects
    \/ RetryWait

SpecRetry == InitRetry /\ [][NextRetry]_vars

\* the positions of the batch invocations in the event log
AttemptsAt(log) == {i \in 1..Len(log) : log[i].kind # "wait"}

\* C5: in one run the batch is invoked at least once and at most 3 times; a further
\* attempt is made only when every earlier attempt returned zero data or threw; a
\* 1-second wait occurs between consecutive attempts and not after the last one; the
\* loop stops at the first attempt that returns at least one datum.
C5_RetryDiscipline ==
    LET log == retry.log
        A   == AttemptsAt(log)
    IN /\ Cardinality(A) <= 3
       /\ retry.pc = "done" => Cardinality(A) >= 1
       /\ \A i \in A : \A j \in A : j < i => log[j].kind \in {"empty", "threw"}
       /\ \A i \in A : log[i].kind = "data" => (i = Len(log) /\ retry.pc = "done")
       /\ \A i \in 1..Len(log) :
            /\ (i % 2 = 1) <=> (i \in A)
            /\ (i \notin A) => log[i].at = log[i - 1].at + 1
       /\ retry.pc = "done" => Len(log) \in A
       /\ retry.pc = "wait" => (Len(log) \in A /\ Cardinality(A) < 3)
       /\ retry.pc = "attempt" => Len(log) \notin A

\* a run that needed all three attempts, with two waits, is over
C5_Witness ==
    /\ retry.pc = "done"
    /\ Len(retry.log) = 5
    /\ retry.log[5].kind = "data"
    /\ retry.log[5].at = 2

\* C6: when all 3 attempts end with zero data the run returns exactly one weather
\* datum from source 'Last Known Data' with freshness stale and reliability low if
\* the context has a location, and an empty list if it has none; when some attempt
\* returned data, that data is returned unchanged and no fallback entry is added.
C6_Fallback ==
    retry.pc = "done" =>
        LET log == retry.log
            got == {i \in AttemptsAt(log) : log[i].kind = "data"}
            out == retry.returned[1]
        IN /\ (got = {} /\ HasLocation(context)) =>
                /\ Cardinality(AttemptsAt(log)) = 3
                /\ Len(out) = 1
                /\ out[1].source = "Last Known Data"
                /\ out[1].type = "weather"
                /\ out[1].freshness = "stale"
                /\ out[1].reliability = "low"
           /\ (got = {} /\ ~HasLocation(context)) =>
                /\ Cardinality(AttemptsAt(log)) = 3
                /\ out = <<>>
           /\ got # {} =>
                /\ \A i \in got : out = log[i].data
                /\ out = batch[1]
                /\ \A k \in 1..Len(out) : out[k].source # "Last Known Data"

\* three attempts failed for a context with a location and the fallback was returned
C6_Witness ==
    /\ retry.pc = "done"
    /\ HasLocation(context)
    /\ Cardinality(AttemptsAt(retry.log)) = 3
    /\ \A i \in AttemptsAt(retry.log) : retry.log[i].kind = "threw"
    /\ Len(retry.returned[1]) = 1
    /\ retry.returned[1][1].source = "Last Known Data"

(***************************************************************************)
(* Specification SpecPre: preprocessQuery applied to any query text.       *)
(***************************************************************************)
InitPre ==
    /\ now = 0
    /\ cache = EmptyCache
    /\ nCalls = 0
    /\ nTicks = 0
    /\ agent = "weather"
    /\ first = <<>>
    /\ last = <<>>
    /\ context = NoContext
    /\ batch = <<>>
    /\ nBatches = 0
    /\ retry = RetryIdle
    /\ NoExtra
    /\ query \in Queries
    /\ language = "en"
    /\ processed = <<>>
    /\ pc = "idle"
    /\ hook = "none"
    /\ systemHealth = InitialHealth
    /\ draft = <<>>
    /\ llmLog = <<>>
    /\ response = <<>>
    /\ raised = FALSE
    /\ shown = <<>>

\* const processed = preprocessQuery(query)
PreprocessQuery ==
    /\ processed = <<>>
    /\ processed' = <<preprocessQuery(query)>>
    /\ UNCHANGED <<extraVars, agentVars, batchVars, retry, query, language, pc, hook,
                   systemHealth, draft, llmLog, response, raised, shown>>

NextPre ==
    \/ PreprocessQuery

SpecPre == InitPre /\ [][NextPre]_vars

\* a letter of the scripts the validation admits: Latin, and the Indic blocks from
\* Devanagari (U+0900) to Malayalam (U+0D7F)
AllowListedLetter(ch) ==
    \/ ch \in Range(LowerLetters) \cup Range(UpperLetters)
    \/ \E block \in 0..8 : InRange(ch, 2304 + 128 * block, 2304 + 128 * block + 127)

\* C10: isValid is true iff the cleaned text has length at least 3 and contains at
\* least one letter of an allow-listed script; whenever isValid is false a non-empty
\* error message is set, and whenever it is true error is undefined.
C10_Validity ==
    processed # <<>> =>
        LET p == processed[1]
        IN /\ p.isValid <=>
                /\ Len(p.cleanedText) >= 3
                /\ \E i \in 1..Len(p.cleanedText) : AllowListedLetter(p.cleanedText[i])
           /\ ~p.isValid => (p.error # <<>> /\ p.error[1] # "")
           /\ p.isValid => p.error = <<>>

\* 'hi' was preprocessed: two letters, invalid, with the error message
C10_Witness ==
    /\ processed # <<>>
    /\ query = Hi
    /\ processed[1].cleanedText = Hi
    /\ ~processed[1].isValid
    /\ processed[1].error = <<invalidQueryMessage>>

\* C7: for every valid query the preprocessing delivers a QueryContext; for
\* 'Wheat prices in Punjab' it has state 'punjab', crop 'wheat' and a query type
\* list including 'market', so that the retrieval for it includes a weather and a
\* market datum.
C7_ContextDelivered ==
    (processed # <<>> /\ processed[1].isValid) =>
        LET ctx == extractedContext(processed[1])
        IN /\ ctx # <<>>
           /\ query = WheatPricesInPunjab =>
                /\ ctx[1].location # <<>>
                /\ ctx[1].location[1].state = "punjab"
                /\ ctx[1].crop = <<"wheat">>
                /\ "market" \in ctx[1].queryType
                /\ \E pay \in [RandomTypes -> Payloads] :
                     LET got == retrieveAllRelevantData(EmptyCache, 0, ctx[1], pay).results
                     IN CountType(got, "weather") > 0 /\ CountType(got, "market") > 0

(***************************************************************************)
(* Specification Spec: one request from its submission in a hook to the    *)
(* value handed to the UI.  The hook of useQueries.tsx calls               *)
(* generateAdvice; the hook of src/unnamed/part_005 validates the query    *)
(* and invokes the generate-advice function itself.  The offlineCache      *)
(* module is a collaborator: each of its calls has any of its outcomes.    *)
(***************************************************************************)
\* the responses offlineCache may hold for a query
StoredResponses ==
    { [ answer |-> <<"title", "tips", "transparency">>, sources |-> <<>>,
        confidence |-> 85, factualBasis |-> "high", disclaimer |-> <<>> ],
      [ answer |-> <<"heading", "generalGuidance">>, sources |-> <<>>,
        confidence |-> 40, factualBasis |-> "low",
        disclaimer |-> <<"Based on general agricultural knowledge - ", "Offline mode">> ] }

\* outcomes of offlineCache.getCachedResponse and getOfflineFallback: nothing stored,
\* the call throws, a stored object without the expected properties, a stored response
StoreOutcomes == {"null", "throws", "malformed"}

InitRequest ==
    /\ now = 0
    /\ cache = EmptyCache
    /\ nCalls = 0
    /\ nTicks = 0
    /\ agent = "weather"
    /\ first = <<>>
    /\ last = <<>>
    /\ context = NoContext
    /\ batch = <<>>
    /\ nBatches = 0
    /\ retry = RetryIdle
    /\ NoRequest

\* useQueries.tsx submitQuery up to the call of generateAdviceWithRAG
SubmitQuery ==
    /\ pc = "idle"
    /\ \E text \in Queries, lang \in Languages, user \in BOOLEAN :
         /\ query' = text
         /\ language' = lang
         /\ hook' = "useQueries"
         /\ pc' = IF user THEN "health" ELSE "returned"
    /\ UNCHANGED <<extraVars, agentVars, batchVars, retry, processed, systemHealth, draft,
                   llmLog, response, raised, shown>>

\* Step 0: await this.checkSystemHealth(), outside the try block
CheckSystemHealth ==
    /\ pc = "health"
    /\ \E online \in {"true", "false", "throws"}, stats \in {"counted", "negative", "throws"} :
         LET r == checkSystemHealth(systemHealth, online, stats)
         IN /\ systemHealth' = r.systemHealth
            /\ raised' = r.threw
            /\ pc' = IF r.threw THEN "rejected" ELSE "cached"
    /\ UNCHANGED <<extraVars, agentVars, batchVars, retry, query, language, processed, hook,
                   draft, llmLog, response, shown>>

\* offlineCache.getCachedResponse(query, language) and the return of a cached response
GetCachedResponse ==
    /\ pc = "cached"
    /\ \/ /\ pc' = "online"
          /\ UNCHANGED response
       \/ /\ pc' = "caught"
          /\ UNCHANGED response
       \/ \E stored \in StoredResponses :
            /\ response' = << formatFarmerFriendlyResponse(
                                [stored EXCEPT !.disclaimer =
                                    <<"Cached response from ", "date", ". ">> \o stored.disclaimer],
                                stored.sources, language, query) >>
            /\ pc' = "resolved"
    /\ UNCHANGED <<extraVars, agentVars, batchVars, retry, query, language, processed, hook,
                   systemHealth, draft, llmLog, raised, shown>>

\* if (!offlineCache.isOnline()) { ... }
CheckOnline ==
    /\ pc = "online"
    /\ \E online \in {"true", "false", "throws"} :
         \/ /\ online = "true"
            /\ pc' = "preprocess"
            /\ UNCHANGED response
         \/ /\ online = "throws"
            /\ pc' = "caught"
            /\ UNCHANGED response
         \/ /\ online = "false"
            /\ \/ \E outcome \in StoreOutcomes :
                    IF outcome = "null"
                    THEN /\ response' = <<getBasicOfflineResponse(query, language)>>
                         /\ pc' = "resolved"
                    ELSE /\ pc' = "caught"
                         /\ UNCHANGED response
               \/ \E stored \in StoredResponses :
                    /\ response' = << formatFarmerFriendlyResponse(
                                        stored, stored.sources, language, query) >>
                    /\ pc' = "resolved"
    /\ UNCHANGED <<extraVars, agentVars, batchVars, retry, query, language, processed, hook,
                   systemHealth, draft, llmLog, raised, shown>>

\* Step 1: Preprocess and extract context
Preprocess ==
    /\ pc = "preprocess"
    /\ LET p == preprocessQuery(query)
       IN /\ processed' = <<p>>
          /\ IF ~p.isValid
             THEN /\ response' = <<getFallbackAdvisory(query, language, "Invalid query format")>>
                  /\ pc' = "resolved"
             ELSE /\ pc' = "prompt"
                  /\ UNCHANGED response
    /\ UNCHANGED <<extraVars, agentVars, batchVars, retry, query, language, hook, systemHealth,
                   draft, llmLog, raised, shown>>

\* Steps 2 and 3: the initial prompt, the call of the model, the grounding decision
InitialAnswer ==
    /\ pc = "prompt"
    /\ LET ctx == extractedContext(processed[1])
       IN IF constructInitialPrompt(ctx) = "TypeError"
          THEN /\ pc' = "caught"
               /\ UNCHANGED <<draft, llmLog, retry, response>>
          ELSE \E outcome \in LLMOutcomes, advice \in Advices :
                 LET initialAnswer == callLLM(outcome, advice)
                 IN /\ llmLog' = Append(llmLog,
                                      [ outcome |-> outcome,
                                        prompt |-> [ kind |-> "initial",
                                                     initialAnswer |-> <<>>,
                                                     data |-> <<>> ] ])
                    /\ draft' = <<initialAnswer>>
                    /\ IF shouldGroundResponse(ctx[1], initialAnswer)
                       THEN /\ pc' = "retrieve"
                            /\ retry' = IF loopContinues(0, <<>>)
                                        THEN [RetryIdle EXCEPT !.pc = "attempt"]
                                        ELSE finish(RetryIdle, ctx[1], now)
                            /\ UNCHANGED response
                       ELSE /\ pc' = "format"
                            /\ response' = << [ answer |-> <<initialAnswer.text>>,
                                                sources |-> <<>>,
                                                confidence |-> 75,
                                                factualBasis |-> "medium",
                                                disclaimer |-> <<"General agricultural guidance">> ] >>
                            /\ UNCHANGED retry
    /\ UNCHANGED <<extraVars, agentVars, batchVars, query, language, processed, hook, systemHealth,
                   raised, shown>>

\* catch (error): Never fail completely - always provide fallback
CatchAll ==
    /\ pc = "caught"
    /\ response' = <<getFallbackAdvisory(query, language, "System temporarily unavailable")>>
    /\ pc' = "resolved"
    /\ UNCHANGED <<extraVars, agentVars, batchVars, retry, query, language, processed, hook,
                   systemHealth, draft, llmLog, raised, shown>>

\* the answer generateAdviceWithRAG puts in place of a rejected generateAdvice
hookFallback ==
    [ answer |-> <<"heading", "generalGuidance">>, sources |-> <<>>, confidence |-> 40,
      factualBasis |-> "low",
      disclaimer |-> <<"System temporarily unavailable - showing general farming guidance">> ]

\* generateAdviceWithRAG returns; submitQuery builds responseData, starts the save in
\* the background, sets the timer of the save status check and returns responseData
ReturnToHook ==
    /\ pc \in {"resolved", "rejected"}
    /\ hook = "useQueries"
    /\ LET ragResponse == IF raised THEN hookFallback ELSE response[1]
       IN shown' = << [ title |-> "advice",
                        advice |-> ragResponse.answer,
                        explanation |-> IF ragResponse.disclaimer # <<>>
                                        THEN ragResponse.disclaimer
                                        ELSE <<"AI-generated advice with ",
                                               ragResponse.factualBasis, " factual basis">>,
                        factual_basis |-> ragResponse.factualBasis ] >>
    /\ save' = [ attemptSave(SaveIdle, now) EXCEPT !.note = "armed",
                                                  !.noteDue = now + noteDelay ]
    /\ pc' = "returned"
    /\ UNCHANGED <<requests, helperResult, agentVars, batchVars, retry, query, language, processed, hook,
                   systemHealth, draft, llmLog, response, raised>>

\* the toast of the part_005 hook
Toast(title) ==
    [title |-> title, advice |-> <<>>, explanation |-> <<>>, factual_basis |-> "none"]

\* part_005 submitQuery up to the call of generateAdviceWithAI
SubmitQueryValidated ==
    /\ pc = "idle"
    /\ \E text \in Queries, lang \in Languages, user \in BOOLEAN :
         /\ query' = text
         /\ language' = lang
         /\ hook' = "part_005"
         /\ IF ~user
            THEN /\ shown' = <<Toast("Authentication Error")>>
                 /\ pc' = "returned"
                 /\ UNCHANGED processed
            ELSE LET p == preprocessQuery(text)
                 IN /\ processed' = <<p>>
                    /\ IF ~p.isValid
                       THEN /\ shown' = <<Toast("Invalid Query")>>
                            /\ pc' = "returned"
                       ELSE /\ pc' = "invoke"
                            /\ UNCHANGED shown
    /\ UNCHANGED <<extraVars, agentVars, batchVars, retry, systemHealth, draft, llmLog, response,
                   raised>>

\* part_005 generateAdviceWithAI and the rest of submitQuery: the insert and the toast
GenerateAdviceWithAI ==
    /\ pc = "invoke"
    /\ \E outcome \in LLMOutcomes, saved \in BOOLEAN :
         /\ llmLog' = Append(llmLog,
                              [ outcome |-> outcome,
                                prompt |-> [ kind |-> "cleanedQuery", initialAnswer |-> <<>>,
                                             data |-> <<>> ] ])
         /\ shown' = IF outcome = "advice" /\ saved
                     THEN << [Toast("Success!") EXCEPT !.advice = <<"advice">>] >>
                     ELSE <<Toast("Error")>>
    /\ pc' = "returned"
    /\ UNCHANGED <<extraVars, agentVars, batchVars, retry, query, language, processed, hook,
                   systemHealth, draft, response, raised>>

Next ==
    \/ SubmitQuery
    \/ CheckSystemHealth
    \/ GetCachedResponse
    \/ CheckOnline
    \/ Preprocess
    \/ InitialAnswer
    \/ CatchAll
    \/ ReturnToHook
    \/ SubmitQueryValidated
    \/ GenerateAdviceWithAI

Spec == InitRequest /\ [][Next]_vars

\* the disclaimer of getFallbackAdvisory for a reason
FallbackDisclaimer(reason) == <<"Based on general agricultural knowledge - ", reason>>

\* C1: generateAdvice returns a response for every query, language and outcome of its
\* collaborators: no execution ends with an exception propagated to the caller, and every
\* position a started call reaches is one it proceeds from until it has resolved.
C1_AlwaysResponds ==
    /\ ~raised
    /\ pc # "rejected"
    /\ pc = "resolved" => (response # <<>> /\ Len(response[1].answer) > 0)
    /\ hook = "useQueries" =>
           pc \in {"health", "cached", "online", "preprocess", "prompt", "caught",
                   "resolved", "returned"}
    /\ (hook = "useQueries" /\ pc = "returned" /\ response # <<>>) =>
           (shown # <<>> /\ shown[1].advice = response[1].answer)

\* an exception thrown inside the pipeline for a valid query was caught, and the
\* fallback response was handed to the hook
C1_Witness ==
    /\ pc = "returned"
    /\ hook = "useQueries"
    /\ processed # <<>> /\ processed[1].isValid
    /\ response # <<>>
    /\ response[1].disclaimer = FallbackDisclaimer("System temporarily unavailable")
    /\ shown # <<>> /\ shown[1].advice = response[1].answer

\* the cleaned text of a query is shorter than 3 characters or holds no allow-listed letter
FailsValidation(text) ==
    LET cleaned == preprocessQuery(text).cleanedText
    IN \/ Len(cleaned) < 3
       \/ ~\E i \in 1..Len(cleaned) : AllowListedLetter(cleaned[i])

\* C9: for a query that fails validation no data-retrieval call and no generation
\* call is made from the submission of the request until its response is returned
\* (stated by contraposition: a request that has made a call has a query that passes).
C9_NoCallsForInvalid ==
    (pc # "idle" /\ (Len(llmLog) > 0 \/ nBatches > 0)) => ~FailsValidation(query)

\* 'hi' went through generateAdvice and was answered with the invalid-query fallback
C9_Witness ==
    /\ pc = "returned"
    /\ hook = "useQueries"
    /\ query = Hi
    /\ response # <<>>
    /\ response[1].disclaimer = FallbackDisclaimer("Invalid query format")
    /\ Len(llmLog) = 0 /\ nBatches = 0

(***************************************************************************)
(* Specification SpecGenerate: generateAdvice from Step 2 on, for a        *)
(* ProcessedQuery that carries a QueryContext as its interface declares,   *)
(* with every outcome of the generation client, of the retrieval and of    *)
(* offlineCache.cacheResponse.                                             *)
(***************************************************************************)
\* a ProcessedQuery with the extractedContext property
withContext(p, ctx) ==
    [ originalText |-> p.originalText, cleanedText |-> p.cleanedText,
      detectedLanguage |-> p.detectedLanguage, isValid |-> p.isValid,
      error |-> p.error, extractedContext |-> ctx ]

InitGenerate ==
    /\ now = 0
    /\ cache = EmptyCache
    /\ nCalls = 0
    /\ nTicks = 0
    /\ agent = "weather"
    /\ first = <<>>
    /\ last = <<>>
    /\ context \in RetryContexts
    /\ batch = <<>>
    /\ nBatches = 0
    /\ retry = RetryIdle
    /\ NoExtra
    /\ query = PaniKabDenaHai
    /\ language \in Languages
    /\ processed = <<withContext(preprocessQuery(query), context)>>
    /\ pc = "prompt"
    /\ hook = "useQueries"
    /\ systemHealth \in [apiStatus : BOOLEAN, cacheStatus : BOOLEAN]
    /\ draft = <<>>
    /\ llmLog = <<>>
    /\ response = <<>>
    /\ raised = FALSE
    /\ shown = <<>>

\* Steps 4 to 6 after retrieveDataWithRetries has returned: the grounded answer, or
\* the suggested questions
GroundResponse ==
    /\ pc = "retrieve"
    /\ retry.pc = "done"
    /\ LET ctx           == extractedContext(processed[1])[1]
           retrievedData == retry.returned[1]
           relevantData  == filterRelevantData(retrievedData, ctx)
       IN IF Len(retrievedData) > 0 /\ Len(relevantData) > 0
          THEN \E outcome \in LLMOutcomes, advice \in Advices :
                 /\ llmLog' = Append(llmLog,
                                      [ outcome |-> outcome,
                                        prompt |-> constructGroundedPrompt(
                                                       processed[1].cleanedText, draft[1],
                                                       buildFactualContext(relevantData),
                                                       language) ])
                 /\ response' = << [ answer |-> <<callLLM(outcome, advice).text>>,
                                     sources |-> createSourceReferences(relevantData),
                                     confidence |-> calculateDynamicConfidence(relevantData, ctx),
                                     factualBasis |-> assessFactualBasis(relevantData),
                                     disclaimer |-> getSystemHealthDisclaimer(systemHealth) ] >>
          ELSE /\ response' = << [ answer |-> generateSuggestedQuestionsResponse(
                                                  processed[1].cleanedText, language, ctx),
                                   sources |-> <<>>,
                                   confidence |-> IF Len(retrievedData) > 0 THEN 60 ELSE 50,
                                   factualBasis |-> "low",
                                   disclaimer |-> IF Len(retrievedData) > 0
                                       THEN <<"Insufficient data available - suggested questions provided">>
                                       ELSE <<"No current data available - suggested questions provided">> ] >>
               /\ UNCHANGED llmLog
    /\ pc' = "format"
    /\ UNCHANGED <<extraVars, agentVars, batchVars, retry, query, language, processed, hook,
                   systemHealth, draft, raised, shown>>

\* formatFarmerFriendlyResponse, offlineCache.cacheResponse and the return
FormatAndCache ==
    /\ pc = "format"
    /\ \E stored \in BOOLEAN :
         IF stored
         THEN /\ response' = << formatFarmerFriendlyResponse(
                                  response[1], response[1].sources, language, query) >>
              /\ pc' = "resolved"
         ELSE /\ pc' = "caught"
              /\ UNCHANGED response
    /\ UNCHANGED <<extraVars, agentVars, batchVars, retry, query, language, processed, hook,
                   systemHealth, draft, llmLog, raised, shown>>

NextGenerate ==
    \/ InitialAnswer
    \/ RetryAttemptResolves
    \/ RetryAttemptRejects
    \/ RetryWait
    \/ GroundResponse
    \/ FormatAndCache
    \/ CatchAll

SpecGenerate == InitGenerate /\ [][NextGenerate]_vars

\* the disclaimer tells that the system, the data or the connection is not available
MentionsUnavailability(disclaimer) ==
    \E i \in 1..Len(disclaimer) :
        disclaimer[i] \in { "System temporarily unavailable",
                            "No current data available - suggested questions provided",
                            "Insufficient data available - suggested questions provided",
                            "Limited connectivity", "Cache unavailable", "Offline mode" }

\* every generation call of the request failed, and there was at least one
GenerationFailed ==
    /\ Len(llmLog) > 0
    /\ \A i \in 1..Len(llmLog) : llmLog[i].outcome \in LLMFailures

C11_Idempotent ==
    processed # <<>> =>
        preprocessQuery(processed[1].cleanedText).cleanedText = processed[1].cleanedText

\* the cleaned text holds a code point of the Unicode block from lo to hi
HasBlock(text, lo, hi) == \E i \in 1..Len(text) : InRange(text[i], lo, hi)

\* the language the script table gives: Devanagari (U+0900-U+097F), Bengali
\* (U+0980-U+09FF), Gujarati (U+0A80-U+0AFF), Odia (U+0B00-U+0B7F), in this order
TableLanguage(text) ==
    IF HasBlock(text, 2304, 2431) THEN "hin"
    ELSE IF HasBlock(text, 2432, 2559) THEN "ben"
    ELSE IF HasBlock(text, 2688, 2815) THEN "guj"
    ELSE IF HasBlock(text, 2816, 2943) THEN "ori"
    ELSE IF containsHinglishPattern(text) THEN "hin-rom"
    ELSE "eng"

\* C12: language detection follows the script table in priority order Devanagari,
\* Bengali, Gujarati, Odia: the highest-priority script present in the cleaned text
\* decides; text with none of these scripts is Hinglish if a romanized-Hindi pattern
\* matches and English otherwise.
C12_ScriptTable ==
    processed # <<>> =>
        processed[1].detectedLanguage = TableLanguage(cleanText(query))

(***************************************************************************)
(* Specification SpecGround: shouldGroundResponse called on its own, with  *)
(* any query context and any string the generation call can resolve with.  *)
(***************************************************************************)
\* nothing but the helper under study is in use
OtherwiseIdle ==
    /\ now = 0
    /\ cache = EmptyCache
    /\ nCalls = 0
    /\ nTicks = 0
    /\ agent = "weather"
    /\ first = <<>>
    /\ last = <<>>
    /\ nBatches = 0
    /\ retry = RetryIdle
    /\ NoExtra
    /\ query = <<>>
    /\ processed = <<>>
    /\ pc = "idle"
    /\ hook = "none"
    /\ llmLog = <<>>
    /\ response = <<>>
    /\ raised = FALSE
    /\ shown = <<>>

InitGround ==
    /\ OtherwiseIdle
    /\ batch = <<>>
    /\ context \in Contexts
    /\ language \in Languages
    /\ systemHealth \in [apiStatus : BOOLEAN, cacheStatus : BOOLEAN]
    /\ draft = <<>>

ShouldGroundResponse ==
    /\ helperResult = <<>>
    /\ \E outcome \in LLMOutcomes, advice \in Advices :
         /\ draft' = <<callLLM(outcome, advice)>>
         /\ helperResult' = <<shouldGroundResponse(context, draft'[1])>>
    /\ UNCHANGED <<requests, save, agentVars, batchVars, retry, query, language, processed, pc, hook,
                   systemHealth, llmLog, response, raised, shown>>

NextGround == ShouldGroundResponse

SpecGround == InitGround /\ [][NextGround]_vars

\* word is a contiguous piece of text
HasLiteral(text, word) ==
    \E i \in 1..Len(text), j \in 1..Len(text) : SubSeq(text, i, j) = word

\* the need the statement gives for a context and a draft answer
StatedNeed(ctx, text) ==
    \/ ctx.location # <<>>
    \/ ctx.crop # <<>>
    \/ \E t \in ctx.queryType : t \in {"weather", "market", "price", "scheme"}
    \/ HasLiteral(text, <<"c", "u", "r", "r", "e", "n", "t">>)
    \/ HasLiteral(text, <<"l", "a", "t", "e", "s", "t">>)
    \/ HasLiteral(text, <<"t", "o", "d", "a", "y">>)

\* C13: the needs-grounding decision is true exactly when the context has a location,
\* or has a crop, or its queryType contains one of weather, market, price, scheme, or
\* the draft answer contains the literal 'current', 'latest' or 'today'; it depends
\* on nothing else.
C13_NeedsGrounding ==
    helperResult # <<>> => helperResult[1] = StatedNeed(context, draft[1].chars)

\* a context without location, crop or data topic is grounded because of the draft's
\* 'today'
C13_Witness ==
    /\ helperResult = <<TRUE>>
    /\ context = [NoContext EXCEPT !.queryType = {"soil"}]
    /\ draft[1].chars = WaterToday

(***************************************************************************)
(* Specification SpecConfidence: calculateDynamicConfidence and            *)
(* assessFactualBasis called on their own, with any list of retrieved data *)
(* of up to MaxData items and any context.                                 *)
(***************************************************************************)
MaxData == 2

\* RetrievedData values: of two types, fresh or not, without a location, in the
\* context's state or in another one, and with or without the crop a market payload
\* was requested for
DataItems ==
    { [ Datum("source", type, data, 80, 0, <<>>, freshness, <<>>)
          EXCEPT !.location = <<>> ] :
        type \in {"weather", "market"}, freshness \in {"fresh", "stale"},
        data \in { [rnd |-> 1], [rnd |-> 1, requestedCrop |-> "wheat"] } }
    \cup
    { Datum("source", type, [rnd |-> 1], 80, 0, location, freshness, <<>>) :
        type \in {"weather", "market"}, freshness \in {"fresh", "stale"},
        location \in { [state |-> "punjab", district |-> "ludhiana"],
                       [state |-> "kerala", district |-> "kochi"] } }

DataLists == UNION { [1..n -> DataItems] : n \in 0..MaxData }

InitConfidence ==
    /\ OtherwiseIdle
    /\ batch \in DataLists
    /\ context \in { c \in Contexts : c.queryType = {} }
    /\ language = "en"
    /\ systemHealth = InitialHealth
    /\ draft = <<>>

CalculateDynamicConfidence ==
    /\ helperResult = <<>>
    /\ helperResult' = << [ confidence |-> calculateDynamicConfidence(batch, context),
                            factualBasis |-> assessFactualBasis(batch) ] >>
    /\ UNCHANGED <<requests, save, agentVars, batchVars, retry, reqVars>>

NextConfidence == CalculateDynamicConfidence

SpecConfidence == InitConfidence /\ [][NextConfidence]_vars

\* the number of fresh items of a list of data
FreshCount(data) == Cardinality({ i \in 1..Len(data) : data[i].freshness = "fresh" })

\* the lists that differ from data in the freshness of their items only
Refreshed(data) ==
    { [ i \in 1..Len(data) |-> [data[i] EXCEPT !.freshness = f[i]] ] :
        f \in [1..Len(data) -> {"fresh", "stale"}] }

\* C14: the confidence from calculateDynamicConfidence is monotonically
\* non-decreasing in the number of fresh sources, the source count and every other
\* input held fixed, and it is always within [0, 0.95].
C14_ConfidenceMonotone ==
    helperResult # <<>> =>
        /\ helperResult[1].confidence \in 0..95
        /\ \A other \in Refreshed(batch) :
             FreshCount(other) >= FreshCount(batch) =>
                 calculateDynamicConfidence(other, context) >= helperResult[1].confidence

\* two items of two types, one of them fresh, with the crop matched: the sum stays
\* under the cap, and the same list with both items fresh runs into it
C14_Witness ==
    /\ helperResult # <<>>
    /\ Len(batch) = 2
    /\ FreshCount(batch) = 1
    /\ helperResult[1].confidence = 90
    /\ \E other \in Refreshed(batch) :
         /\ FreshCount(other) = 2
         /\ calculateDynamicConfidence(other, context) = 95

\* C15: assessFactualBasis returns 'high' iff at least 2 of the sources are fresh,
\* 'medium' iff fewer than 2 are fresh and there are at least 2 sources in total, and
\* 'low' otherwise, for every list of sources.
C15_FactualBasis ==
    helperResult # <<>> =>
        LET basis == helperResult[1].factualBasis
        IN /\ basis \in {"high", "medium", "low"}
           /\ (basis = "high") <=> (FreshCount(batch) >= 2)
           /\ (basis = "medium") <=> (FreshCount(batch) < 2 /\ Len(batch) >= 2)
           /\ (basis = "low") <=> (FreshCount(batch) < 2 /\ Len(batch) < 2)

\* two sources, exactly one of them fresh: 'medium'
C15_Witness ==
    /\ helperResult # <<>>
    /\ Len(batch) = 2
    /\ FreshCount(batch) = 1
    /\ helperResult[1].factualBasis = "medium"

\* the market prices a response has to show: those of its first market source
PricesAvailable(resp) ==
    /\ hasSource(resp.sources, "market")
    /\ "prices" \in DOMAIN findSource(resp.sources, "market").data
    /\ Len(findSource(resp.sources, "market").data.prices) > 0

HasSection(resp, name) == \E i \in 1..Len(resp.answer) : resp.answer[i] = name

\* C16: every rendered response contains a 'Market Prices' section, and whenever no
\* market prices are available to show (no market source, or a market source whose
\* payload has no prices) the section carries an explicit data-unavailable notice.
C16_MarketSection ==
    (pc = "resolved" /\ response # <<>>) =>
        /\ HasSection(response[1], "market")
        /\ ~PricesAvailable(response[1]) =>
               \/ HasSection(response[1], "marketUnavailable")
               \/ HasSection(response[1], "missingDataNote")

\* the disclaimers of the two branches that answer with suggested questions
InsufficientDataDisclaimers ==
    { <<"Insufficient data available - suggested questions provided">>,
      <<"No current data available - suggested questions provided">> }

MaxTime == 2

InitSave ==
    /\ now = 0
    /\ cache = EmptyCache
    /\ nCalls = 0
    /\ nTicks = 0
    /\ agent = "weather"
    /\ first = <<>>
    /\ last = <<>>
    /\ context = NoContext
    /\ batch = <<>>
    /\ nBatches = 0
    /\ retry = RetryIdle
    /\ NoExtra
    /\ query \in {Hi, WheatPricesInPunjab}
    /\ language \in Languages
    /\ processed = <<>>
    /\ pc = "resolved"
    /\ hook = "useQueries"
    /\ systemHealth \in [apiStatus : {FALSE}, cacheStatus : BOOLEAN]
    /\ draft = <<>>
    /\ llmLog = <<>>
    /\ response \in { <<getBasicOfflineResponse(query, language)>> }
                    \cup { << formatFarmerFriendlyResponse(stored, stored.sources,
                                                           language, query) >> :
                             stored \in StoredResponses }
    /\ raised = FALSE
    /\ shown = <<>>

\* the awaited insert resolves with data and without error
InsertResolves ==
    /\ save.pc = "inflight"
    /\ save' = saveSucceeded(save, now)
    /\ UNCHANGED <<requests, helperResult, agentVars, batchVars, retry, reqVars>>

\* the awaited insert resolves with an error or without data, or throws
InsertRejects ==
    /\ save.pc = "inflight"
    /\ save' = saveFailed(save, now)
    /\ UNCHANGED <<requests, helperResult, agentVars, batchVars, retry, reqVars>>

\* the timer of setTimeout(attemptSave, 1000 * retryCount) fires
AttemptSaveAgain ==
    /\ save.pc = "wait"
    /\ ~(save.note = "armed" /\ save.noteDue < save.due)
    /\ now' = save.due
    /\ save' = attemptSave(save, save.due)
    /\ UNCHANGED <<requests, helperResult, cache, nCalls, nTicks, agent, first, last, batchVars,
                   retry, reqVars>>

\* the timer of the save status check fires: the note is shown unless the save has
\* succeeded
CheckSaveStatus ==
    /\ save.note = "armed"
    /\ ~(save.pc = "wait" /\ save.due < save.noteDue)
    /\ now' = save.noteDue
    /\ save' = [save EXCEPT !.note = IF save.savedToDatabase THEN "quiet" ELSE "shown"]
    /\ UNCHANGED <<requests, helperResult, cache, nCalls, nTicks, agent, first, last, batchVars,
                   retry, reqVars>>

\* time passes while an insert is awaited
Elapse ==
    /\ save.pc = "inflight"
    /\ now < MaxTime
    /\ save.note = "armed" => now < save.noteDue
    /\ now' = now + 1
    /\ UNCHANGED <<extraVars, cache, nCalls, nTicks, agent, first, last, batchVars,
                   retry, reqVars>>

NextSave ==
    \/ ReturnToHook
    \/ InsertResolves
    \/ InsertRejects
    \/ AttemptSaveAgain
    \/ CheckSaveStatus
    \/ Elapse

SpecSave == InitSave /\ [][NextSave]_vars

\* the event loop runs every due timer, and every awaited insert settles
SpecSaveLive == SpecSave /\ WF_vars(NextSave)

\* C19: for an authenticated user, submitQuery hands the advisory response to its
\* caller for every outcome of the database save (success, failure on some attempts,
\* failure on all attempts) and without waiting for any save attempt to complete; a
\* save failure never turns into an error or a missing result for the caller.
C19_ResponseRegardlessOfSave ==
    /\ save.pc # "idle" =>
           /\ pc = "returned"
           /\ shown # <<>>
           /\ shown[1].advice = response[1].answer
    /\ ~raised
    /\ ~save.rejected

\* all three inserts have failed, the last one after the save status check, and the
\* caller holds the response
C19_Witness ==
    /\ save.pc = "done"
    /\ ~save.savedToDatabase
    /\ save.retryCount = 3
    /\ save.note = "shown"
    /\ pc = "returned"
    /\ shown # <<>>
    /\ shown[1].advice = response[1].answer

\* the number of failed inserts among the first i entries of the save's log
FailuresUpTo(i) == Cardinality({ j \in 1..i : save.log[j].kind = "failed" })

InsertsLogged == Cardinality({ j \in 1..Len(save.log) : save.log[j].kind = "insert" })

\* the inserts are at most three; each one after the first follows a failed one while
\* fewer than three have failed, the stated delay after it; nothing follows a
\* success or the third failure
SaveDiscipline ==
    /\ InsertsLogged <= 3
    /\ \A i \in 1..Len(save.log) :
         LET e == save.log[i]
         IN /\ (e.kind = "insert" /\ i > 1) =>
                   /\ save.log[i - 1].kind = "failed"
                   /\ FailuresUpTo(i) < 3
                   /\ e.at = save.log[i - 1].at + 1 * FailuresUpTo(i)
            /\ e.kind = "saved" => i = Len(save.log)
            /\ (e.kind = "failed" /\ FailuresUpTo(i) = 3) => i = Len(save.log)
            /\ e.kind # "insert" => (i > 1 /\ save.log[i - 1].kind = "insert")
    /\ save.pc = "wait" =>
           /\ save.log[Len(save.log)].kind = "failed"
           /\ save.retryCount < 3
           /\ save.due = save.log[Len(save.log)].at + 1 * save.retryCount

\* C20: for one submitQuery, the insert into the history table is attempted at most 3
\* times: a new attempt is scheduled only after a failed attempt and only while fewer
\* than 3 attempts have failed, with a delay of 1 second times the number of failures
\* so far; after a successful attempt or after the third failure no further attempt
\* is ever made, so the save activity always stops.
C20_BoundedSave ==
    /\ []SaveDiscipline
    /\ <>[](save.pc = "done")

\* three inserts, the second one second after the first failure and the third two
\* seconds after the second failure, and the save stopped without success
C20_Witness ==
    /\ save.pc = "done"
    /\ ~save.savedToDatabase
    /\ InsertsLogged = 3
    /\ save.log[3].at = save.log[2].at + 1
    /\ save.log[5].at = save.log[4].at + 2
    /\ save.log[4].at > save.log[3].at

GroundedWithData ==
    /\ draft # <<>>
    /\ shouldGroundResponse(extractedContext(processed[1])[1], draft[1])
    /\ retry.pc = "done"
    /\ Len(filterRelevantData(retry.returned[1], extractedContext(processed[1])[1])) > 0

\* C22: a request makes at most two generation calls: the first without grounding
\* data, and a second one iff grounding is required and the filtered relevant data is
\* non-empty; the second call happens after the first has returned and after
\* retrieval, and its prompt contains the first call's answer and the serialized
\* retrieved data.
C22_TwoPasses ==
    /\ Len(llmLog) <= 2
    /\ Len(llmLog) >= 1 =>
           /\ llmLog[1].prompt.kind = "initial"
           /\ llmLog[1].prompt.data = <<>>
    /\ Len(llmLog) = 2 =>
           /\ GroundedWithData
           /\ llmLog[2].prompt.kind = "grounded"
           /\ llmLog[2].prompt.initialAnswer = draft[1].chars
           /\ llmLog[2].prompt.data =
                  buildFactualContext(
                      filterRelevantData(retry.returned[1],
                                         extractedContext(processed[1])[1]))
    /\ (pc \in {"format", "caught", "resolved"} /\ GroundedWithData) => Len(llmLog) = 2

\* two calls: the draft was 'water today', and the data the second prompt carries is
\* the list the retrieval returned
C22_Witness ==
    /\ Len(llmLog) = 2
    /\ pc = "resolved"
    /\ llmLog[2].prompt.initialAnswer = WaterToday
    /\ Len(llmLog[2].prompt.data) > 0

\* C23: the retrieval cache is keyed by (type, location, crop): a retrieval for one
\* location and crop never returns a datum that was cached for a different location
\* (state or district) or a different crop, so the location tagged on a returned
\* datum is always the location of the request that receives it.
C23_KeyedByLocation ==
    last # <<>> =>
        \A i \in 1..Len(last[1].result) :
            last[1].result[i].location = <<last[1].location>>

\* the romanized words of the static dictionary
KnownRomanizedWords == { hinglishToHindi[k][1] : k \in 1..Len(hinglishToHindi) }

\* C24: when hinglish is detected in the input, the cleaned text has every known
\* romanized word of the static dictionary (e.g. 'kisan', 'mitti', 'kaise') replaced
\* by its Devanagari token, and words not in the dictionary are left unchanged.
C24_HinglishTransliterated ==
    (processed # <<>> /\ processed[1].detectedLanguage = "hin-rom") =>
        ~containsWord(processed[1].cleanedText, KnownRomanizedWords)

\* C25: the generation client never propagates an error: on a transport failure, an
\* error status or a malformed reply, callLLM returns the fixed apology string, and
\* every call of callLLM returns a non-empty string.
C25_ApologyOnEveryFailure ==
    draft # <<>> =>
        /\ ~raised
        /\ Len(draft[1].chars) > 0
        /\ llmLog[1].outcome # "advice" => draft[1].chars = Apology

\* C25 as the code has it: callLLM never propagates an error and always returns a
\* non-empty string; it returns the fixed apology string on a transport failure, on
\* an error status and on a reply without data, and the fixed string 'Unable to
\* generate response.' on a reply whose advice is missing or empty.
C25_FixedStringOnFailure ==
    draft # <<>> =>
        /\ ~raised
        /\ pc # "rejected"
        /\ Len(draft[1].chars) > 0
        /\ llmLog[1].outcome \in {"throws", "error", "noData"} => draft[1].chars = Apology
        /\ llmLog[1].outcome = "noAdvice" => draft[1].chars = UnableToGenerate
        /\ llmLog[1].outcome = "advice" => draft[1].chars \in Advices
        /\ (pc = "format" /\ Len(llmLog) = 2) =>
               /\ Len(response[1].answer) = 1
               /\ Len(response[1].answer[1]) > 0
               /\ llmLog[2].outcome \in {"throws", "error", "noData"} =>
                      response[1].answer[1] = callLLM("error", <<>>).text

\* the first call threw and the draft is the apology
C25_Witness ==
    /\ draft # <<>>
    /\ llmLog[1].outcome = "throws"
    /\ draft[1].chars = Apology
    /\ ~raised

(***************************************************************************)
(* Specification SpecFaulty: one retrieveAllRelevantData call after the    *)
(* other, in which the try block of any subset of the agents that reach it *)
(* throws before its setCache.  The catch of the agent logs the error and the agent      *)
(* returns its still empty results; a cache hit returns before the try.    *)
(***************************************************************************)
AgentTypes == {"weather", "market", "advisory", "soil", "scheme"}

\* an agent whose catch would rethrow: the batch so far is lost
agentCaught_LosesBatch(r) == [results |-> <<>>, cache |-> r.cache]

\* catch (error) { console.error(...) } followed by return results
agentCaught(r) == r

\* one agent of the batch; failing is the set of agents whose try block throws
tryStep(r, wanted, type, t, location, crop, pay, failing) ==
    IF /\ wanted
       /\ type \in failing
       /\ getFromCache(r.cache, keyByType(type, location, crop), t) = <<>>
    THEN agentCaught(r)
    ELSE Step(r, wanted, type, t, location, crop, pay)

retrieveAllWithFailures(c, t, ctx, pay, failing) ==
    LET r0 == [results |-> <<>>, cache |-> c]
    IN IF ctx.location # <<>>
       THEN LET loc == ctx.location[1]
                r1  == tryStep(r0, TRUE, "weather", t, loc, ctx.crop, pay, failing)
                r2  == tryStep(r1, wantsMarket(ctx), "market", t, loc, ctx.crop, pay, failing)
                r3  == tryStep(r2, TRUE, "advisory", t, loc, ctx.crop, pay, failing)
                r4  == tryStep(r3, wantsSoil(ctx), "soil", t, loc, ctx.crop, pay, failing)
                r5  == tryStep(r4, wantsScheme(ctx), "scheme", t, loc, ctx.crop, pay, failing)
            IN r5
       ELSE r0

\* the agents that the batch calls for a context
applicable(ctx) ==
    IF ctx.location = <<>>
    THEN {}
    ELSE {"weather", "advisory"}
         \cup (IF wantsMarket(ctx) THEN {"market"} ELSE {})
         \cup (IF wantsSoil(ctx) THEN {"soil"} ELSE {})
         \cup (IF wantsScheme(ctx) THEN {"scheme"} ELSE {})

\* the agents of a context that reach their try block: those without a live entry
reachesTry(c, t, ctx) ==
    {type \in applicable(ctx) :
        getFromCache(c, keyByType(type, ctx.location[1], ctx.crop), t) = <<>>}

\* the contexts of the calls: no location or Ludhiana, no topic or a soil and a
\* scheme topic
FaultyContexts ==
    {c \in Contexts : /\ c.queryType \in {{}, {"soil", "scheme"}}
                      /\ c.location \in {<<>>, <<[state |-> "punjab", district |-> "ludhiana"]>>}}

InitFaulty ==
    /\ now = 0
    /\ cache = EmptyCache
    /\ nCalls = 0
    /\ nTicks = 0
    /\ agent = "weather"
    /\ first = <<>>
    /\ last = <<>>
    /\ context \in FaultyContexts
    /\ batch = <<>>
    /\ nBatches = 0
    /\ retry = RetryIdle
    /\ NoRequest

\* the call of the batch; first keeps the agents that threw, the draws and the cache
\* before the call
RetrieveAllFaulty ==
    /\ nBatches < MaxBatches
    /\ \E p \in Payloads, failing \in SUBSET reachesTry(cache, now, context) :
         LET pay == [type \in RandomTypes |-> p]
             r   == retrieveAllWithFailures(cache, now, context, pay, failing)
         IN /\ cache' = r.cache
            /\ batch' = <<r.results>>
            /\ first' = << [failing |-> failing, pay |-> pay, cache |-> cache, at |-> now] >>
    /\ nBatches' = nBatches + 1
    /\ UNCHANGED <<extraVars, now, nCalls, nTicks, agent, last, context, retry, reqVars>>

\* time passes between two calls
FaultyTick ==
    /\ nTicks < nBatches /\ nTicks < MaxTicks
    /\ now' = now + cacheDuration["weather"]
    /\ nTicks' = nTicks + 1
    /\ UNCHANGED <<extraVars, cache, nCalls, agent, first, last, batchVars, retry, reqVars>>

NextFaulty ==
    \/ RetrieveAllFaulty
    \/ FaultyTick

SpecFaulty == InitFaulty /\ [][NextFaulty]_vars

\* the batch of the same call when no agent fails
WithoutFailures ==
    retrieveAllRelevantData(first[1].cache, first[1].at, context, first[1].pay).results

\* the agent of the datum threw: it was to fail and had no live entry to return
Threw(d) ==
    /\ d.type \in first[1].failing
    /\ getFromCache(first[1].cache,
                    keyByType(d.type, context.location[1], context.crop),
                    first[1].at) = <<>>

\* C27: an agent whose try block throws contributes no datum and does not abort the
\* batch: for every set of failing agents the call returns, and its result is the
\* result of the same call without failures less the data of the agents that threw,
\* in the same order; in particular it holds the datum of every applicable agent
\* that did not fail.
C27_FailingAgentContributesNothing ==
    (batch # <<>> /\ first # <<>>) =>
        /\ batch[1] = SelectSeq(WithoutFailures, LAMBDA d : ~Threw(d))
        /\ \A i \in 1..Len(WithoutFailures) :
              WithoutFailures[i].type \notin first[1].failing =>
                  \E j \in 1..Len(batch[1]) : batch[1][j] = WithoutFailures[i]

\* the weather and the advisory agent threw, the market agent after them delivered
C27_Witness ==
    /\ batch # <<>> /\ first # <<>>
    /\ first[1].failing = {"weather", "advisory"}
    /\ wantsMarket(context) /\ HasLocation(context)
    /\ Len(batch[1]) = 1 /\ batch[1][1].type = "market"
    /\ batch[1][1].freshness = "fresh"

(***************************************************************************)
(* Specification SpecFilter: filterRelevantData applied to any list of     *)
(* data and any context.  Besides the data of DataItems the lists hold     *)
(* market data whose payload names another crop than the context's.        *)
(***************************************************************************)
FilterItems ==
    DataItems
    \cup
    { [ Datum("source", "market", [rnd |-> 1, requestedCrop |-> "rice"], 80, 0, <<>>,
              freshness, <<>>)
          EXCEPT !.location = <<>> ] : freshness \in {"fresh", "stale"} }

FilterLists == UNION { [1..n -> FilterItems] : n \in 0..MaxData }

InitFilter ==
    /\ OtherwiseIdle
    /\ batch \in FilterLists
    /\ context \in { c \in Contexts : c.queryType = {} }
    /\ language = "en"
    /\ systemHealth = InitialHealth
    /\ draft = <<>>

FilterRelevantData ==
    /\ helperResult = <<>>
    /\ helperResult' = << [ relevantData |-> filterRelevantData(batch, context) ] >>
    /\ UNCHANGED <<requests, save, agentVars, batchVars, retry, reqVars>>

NextFilter == FilterRelevantData

SpecFilter == InitFilter /\ [][NextFilter]_vars

OtherCrop(d) ==
    /\ context.crop # <<>>
    /\ d.type = "market"
    /\ requestedCrop(d) # <<>>
    /\ requestedCrop(d) # context.crop

\* a datum tagged with a location in another state and district than the context's
OtherPlace(d) ==
    /\ context.location # <<>> /\ d.location # <<>>
    /\ d.location[1].state # context.location[1].state
    /\ d.location[1].district # context.location[1].district

GeneratedTexts == { callLLM(outcome, advice).text : outcome \in LLMOutcomes, advice \in Advices }

\* the answer texts a response can carry into the formatter: a string of the
\* generation client or the suggested questions
IncomingAnswers ==
    { <<text>> : text \in GeneratedTexts }
    \cup { generateSuggestedQuestionsResponse(<<>>, lang, ctx) :
             lang \in Languages, ctx \in RetryContexts }

\* generateAdvice returned from its try block, not from the catch
ReturnedFormatted ==
    /\ pc = "resolved" /\ response # <<>>
    /\ \/ response[1].disclaimer = <<>>
       \/ response[1].disclaimer[1] # "Based on general agricultural knowledge - "

Requesters == {1, 2}

\* the contexts of the two calls: Ludhiana, with or without a crop
ConcurrentContexts ==
    { [location |-> <<[state |-> "punjab", district |-> "ludhiana"]>>, crop |-> crop,
       queryType |-> {}] : crop \in Crops }

\* the agents retrieveAllRelevantData awaits for a context, in order
agentsOf(ctx) ==
    SelectSeq(<<"weather", "market", "advisory", "soil", "scheme">>,
              LAMBDA type : type \in applicable(ctx))

\* the next agent of a call runs to its return: the cache check, and on a miss the
\* synthesis and the store
runAgent(req, c, t, p) ==
    LET type == agentsOf(req.ctx)[Len(req.data) + 1]
        loc  == req.ctx.location[1]
        a    == retrieveByType(type, c, t, loc, req.ctx.crop, p)
    IN [ req   |-> [req EXCEPT !.data = Append(@,
                       [ at |-> t,
                         hit |-> getFromCache(c, keyByType(type, loc, req.ctx.crop), t) # <<>>,
                         datum |-> a.results[1] ])],
         cache |-> a.cache ]

\* the data a call has retrieved so far
retrieved(req) == [k \in 1..Len(req.data) |-> req.data[k].datum]

\* the call is past its last agent: Step 4 of generateAdvice up to the second await
afterRetrieval(req) ==
    IF Len(req.data) < Len(agentsOf(req.ctx))
    THEN req
    ELSE IF Len(filterRelevantData(retrieved(req), req.ctx)) > 0
         THEN [req EXCEPT !.pc = "grounded"]
         ELSE [req EXCEPT !.pc = "done",
                          !.response = << formatFarmerFriendlyResponse(
                              [ answer |-> generateSuggestedQuestionsResponse(<<>>, "en", req.ctx),
                                sources |-> <<>>, confidence |-> 60, factualBasis |-> "low",
                                disclaimer |->
                                    <<"Insufficient data available - suggested questions provided">> ],
                              <<>>, "en", PaniKabDenaHai) >>]

\* nothing but the two calls is in use
ConcurrentIdle ==
    /\ now = 0
    /\ cache = EmptyCache
    /\ nCalls = 0
    /\ nTicks = 0
    /\ agent = "weather"
    /\ first = <<>>
    /\ last = <<>>
    /\ context = NoContext
    /\ batch = <<>>
    /\ nBatches = 0
    /\ retry = RetryIdle
    /\ helperResult = <<>>
    /\ save = SaveIdle
    /\ query = PaniKabDenaHai
    /\ language = "en"
    /\ processed = <<>>
    /\ pc = "idle"
    /\ hook = "none"
    /\ systemHealth = InitialHealth
    /\ draft = <<>>
    /\ llmLog = <<>>
    /\ response = <<>>
    /\ raised = FALSE
    /\ shown = <<>>

InitConcurrent ==
    /\ ConcurrentIdle
    /\ requests \in [ Requesters ->
                        { [ pc |-> "start", ctx |-> ctx, seen |-> <<>>, data |-> <<>>,
                            response |-> <<>> ] : ctx \in ConcurrentContexts } ]

\* Step 0 of a call: await this.checkSystemHealth()
RequestChecksHealth(i) ==
    /\ requests[i].pc = "start"
    /\ \E online \in {"true", "false"}, stats \in {"counted", "negative"} :
         LET r == checkSystemHealth(systemHealth, online, stats)
         IN /\ systemHealth' = r.systemHealth
            /\ requests' = [requests EXCEPT ![i].pc = "checked",
                                            ![i].seen = <<r.systemHealth>>]
    /\ UNCHANGED <<agentVars, batchVars, retry, helperResult, save, query, language,
                   processed, pc, hook, draft, llmLog, response, raised, shown>>

\* Steps 0.5 to 2 of a call: no cached response; offline, the basic offline response;
\* online, the preprocessing and the first generation call, which is awaited
RequestAsksDraft(i) ==
    /\ requests[i].pc = "checked"
    /\ \E online \in BOOLEAN :
         requests' = IF online
                     THEN [requests EXCEPT ![i].pc = "draft"]
                     ELSE [requests EXCEPT ![i].pc = "done",
                              ![i].response = <<getBasicOfflineResponse(query, language)>>]
    /\ UNCHANGED <<agentVars, batchVars, retry, helperResult, save, reqVars>>

\* the first generation call resolves: Step 3, and for a query that needs grounding
\* the retrieval up to the return of its first agent
RequestDraftReturns(i) ==
    /\ requests[i].pc = "draft"
    /\ \E outcome \in LLMOutcomes, advice \in Advices, p \in Payloads :
         LET req           == requests[i]
             initialAnswer == callLLM(outcome, advice)
         IN IF shouldGroundResponse(req.ctx, initialAnswer)
            THEN LET a == runAgent([req EXCEPT !.pc = "retrieve"], cache, now, p)
                 IN /\ requests' = [requests EXCEPT ![i] = afterRetrieval(a.req)]
                    /\ cache' = a.cache
            ELSE /\ requests' = [requests EXCEPT ![i].pc = "done",
                       ![i].response = << formatFarmerFriendlyResponse(
                           [ answer |-> <<initialAnswer.text>>, sources |-> <<>>,
                             confidence |-> 75, factualBasis |-> "medium",
                             disclaimer |-> <<"General agricultural guidance">> ],
                           <<>>, language, query) >>]
                 /\ UNCHANGED cache
    /\ UNCHANGED <<now, nCalls, nTicks, agent, first, last, batchVars, retry, helperResult,
                   save, reqVars>>

\* the await of an agent resumes and the next agent runs to its return; after the
\* last one Step 4 issues the grounded generation call
RequestRetrieves(i) ==
    /\ requests[i].pc = "retrieve"
    /\ \E p \in Payloads :
         LET a == runAgent(requests[i], cache, now, p)
         IN /\ requests' = [requests EXCEPT ![i] = afterRetrieval(a.req)]
            /\ cache' = a.cache
    /\ UNCHANGED <<now, nCalls, nTicks, agent, first, last, batchVars, retry, helperResult,
                   save, reqVars>>

\* the grounded generation call resolves: the response with the disclaimer of the
\* systemHealth field as it stands now, formatted and returned
RequestGroundedReturns(i) ==
    /\ requests[i].pc = "grounded"
    /\ \E outcome \in LLMOutcomes, advice \in Advices :
         LET req          == requests[i]
             relevantData == filterRelevantData(retrieved(req), req.ctx)
             grounded     == [ answer |-> <<callLLM(outcome, advice).text>>,
                               sources |-> createSourceReferences(relevantData),
                               confidence |-> calculateDynamicConfidence(relevantData, req.ctx),
                               factualBasis |-> assessFactualBasis(relevantData),
                               disclaimer |-> getSystemHealthDisclaimer(systemHealth) ]
         IN requests' = [requests EXCEPT ![i].pc = "done",
                ![i].response = << formatFarmerFriendlyResponse(
                                      grounded, grounded.sources, language, query) >>]
    /\ UNCHANGED <<agentVars, batchVars, retry, helperResult, save, reqVars>>

\* time passes while the calls wait
ConcurrentTick ==
    /\ nTicks < MaxTicks
    /\ \E d \in Deltas("weather") : now' = now + d
    /\ nTicks' = nTicks + 1
    /\ UNCHANGED <<extraVars, cache, nCalls, agent, first, last, batchVars, retry, reqVars>>

ChecksHealth == \E i \in Requesters : RequestChecksHealth(i)

AsksDraft == \E i \in Requesters : RequestAsksDraft(i)

DraftReturns == \E i \in Requesters : RequestDraftReturns(i)

Retrieves == \E i \in Requesters : RequestRetrieves(i)

GroundedReturns == \E i \in Requesters : RequestGroundedReturns(i)

NextConcurrent ==
    \/ ChecksHealth
    \/ AsksDraft
    \/ DraftReturns
    \/ Retrieves
    \/ GroundedReturns

SpecConcurrent == InitConcurrent /\ [][NextConcurrent]_vars

(***************************************************************************)
(* Specification SpecRace: the retrievals of two calls that have both      *)
(* reached retrieveAllRelevantData, interleaved at the awaits of their     *)
(* agents while time passes.                                               *)
(***************************************************************************)
InitRace ==
    /\ ConcurrentIdle
    /\ requests \in [ Requesters ->
                        { [ pc |-> "retrieve", ctx |-> ctx, seen |-> <<InitialHealth>>,
                            data |-> <<>>, response |-> <<>> ] : ctx \in ConcurrentContexts } ]

NextRace ==
    \/ Retrieves
    \/ ConcurrentTick

SpecRace == InitRace /\ [][NextRace]_vars

\* the call returned the grounded response
Grounded(req) ==
    req.pc = "done" /\ req.response # <<>> /\ Len(req.response[1].sources) > 0

MadeCalls == { [by |-> i, k |-> k] : i \in Requesters, k \in 1..5 }

\* the log entry of a call that was made
Entry(c) == requests[c.by].data[c.k]

Made(c) == c.k <= Len(requests[c.by].data)

KeyOf(c) ==
    keyByType(Entry(c).datum.type, requests[c.by].ctx.location[1], requests[c.by].ctx.crop)

\* C30: the cache check and the cache store of an agent run without an await between
\* them, so under every interleaving of two requests at most one payload is
\* synthesized per key and TTL window: when a call synthesized the datum of a key,
\* every other call of either request for that key from then until the entry expires
\* was served from the cache, with the same payload and marked 'cached'.
C30_OneSynthesisPerWindow ==
    \A c1 \in MadeCalls, c2 \in MadeCalls :
        ( /\ c1 # c2 /\ Made(c1) /\ Made(c2)
          /\ ~Entry(c1).hit
          /\ KeyOf(c1) = KeyOf(c2)
          /\ Entry(c1).at <= Entry(c2).at
          /\ Entry(c2).at < Entry(c1).at + cacheDuration[Entry(c1).datum.type] )
        => /\ Entry(c2).hit
           /\ Entry(c2).datum.freshness = "cached"
           /\ Entry(c2).datum.data = Entry(c1).datum.data
           /\ Entry(c2).datum.cacheTime = <<Entry(c1).at>>

\* both requests retrieved the weather of Ludhiana within the hour, the second one
\* to run got the payload the first one synthesized
C30_Witness ==
    /\ requests # <<>>
    /\ Len(requests[1].data) > 0 /\ Len(requests[2].data) > 0
    /\ requests[1].data[1].datum.type = "weather"
    /\ requests[2].data[1].datum.type = "weather"
    /\ requests[1].ctx.location = requests[2].ctx.location
    /\ ~requests[2].data[1].hit /\ requests[1].data[1].hit
    /\ requests[1].data[1].at = requests[2].data[1].at + 1
    /\ requests[1].data[1].datum.data = requests[2].data[1].datum.data
    /\ requests[1].data[1].datum.freshness = "cached"

====
